---- MODULE Spec2Model ----
(***************************************************************************)
(* SEO content grader: the gate -> fix -> re-gate loop of                  *)
(* src/app/layout.tsx (SEOContentGraderStandalone) and the remediation     *)
(* client callLLM, with the evaluation effect of                           *)
(* src/components/DensityGate_v2.tsx.                                      *)
(*                                                                         *)
(* One step of the model is one run-to-completion turn of the browser's    *)
(* event loop: a click handler, a timer callback, or the arrival of an     *)
(* HTTP response together with every promise continuation it releases.     *)
(***************************************************************************)
EXTENDS Integers, Sequences, FiniteSets, TLC

\* ------------------------------------------------------------ bounds
NDocs == 2          \* drafts in the session
MaxRequests == 2    \* HTTP requests the page issues in one behaviour
MaxScript == 6      \* HTTP requests of the direct invocation of callLLM
MaxOriginalLinks == 1   \* anchors of the original HTML given to the link filter
MaxRevisedLinks == 2    \* anchors of the revised HTML given to the link filter
MaxTextLen == 4     \* characters of a text given to the text metrics
MaxKeywordLen == 3  \* characters of a keyword given to the text metrics
MaxClock == 3       \* timer callbacks a mounted gate runs in one behaviour
MaxDrafts == 2      \* drafts on the page of the card operations
MaxFixes == 1       \* rewrites stored in one draft of the card operations
MaxUploads == 3     \* drafts uploaded in one behaviour of the card operations
MaxPending == 1     \* fixOne calls of the cards in flight at a time

\* ------------------------------------------------------------ program constants
maxAttempts == 5    \* callLLM: const maxAttempts = 5

Docs == 1..NDocs
ApiKeys == {"", "sk"}
Primaries == {"kw"}
PassSettings == {1, 2}
PoolSettings == {1, 2}
\* what the rewriter (or the author) can deliver, as the gate will judge it
Contents == {"bad", "good"}
\* HTTP statuses of a failed attempt; 0 stands for an error carrying no status
\* (fetch itself rejected), which callLLM reads as e?.status || 0
Statuses == {0, 400, 429, 500, 503}

Max(a, b) == IF a >= b THEN a ELSE b
Last(s) == s[Len(s)]
\* the least positive integer not in S
Fresh(S) == CHOOSE n \in 1..(Cardinality(S) + 1) : n \notin S

VARIABLES
  drafts,       \* useState<Draft[]>: id -> draft
  apiKey,       \* useState apiKey
  autoLoop,     \* useState autoLoop
  maxPasses,    \* useState maxPasses
  concurrency,  \* useState concurrency
  busy,         \* useState busy
  fa,           \* the running (or last) invocation of fixAll and what its closure captured
  batches,      \* the runWithConcurrency invocations that still have a worker: tasks, i
  calls,        \* the callLLM invocations that have not settled
  nreq,         \* number of HTTP requests issued so far
  reqCap,       \* number of HTTP requests the behaviour may issue
  stranded,     \* drafts whose task was left unstarted when the last worker of its batch ended
  script,       \* what the scripted transport answered to the direct invocation, in order
  last,         \* how the direct invocation of callLLM settled
  gateRun,      \* one evaluation of DensityGateV2: its inputs and the verdict delivered
  linkRun,      \* one application of stripNewUrls: its arguments and what it returned
  textRun,      \* one run of the text metrics on a text and a keyword
  mount,        \* one mounted DensityGateV2: its props, its timer, what it delivered
  docs,         \* the Draft[] of the page with every field the card operations touch
  pending,      \* the fixOne calls of the cards that have not settled
  uids,         \* number of ids uid() has handed out
  session,      \* the page's settings, the IndexedDB record, and the restore in progress
  exportRun,    \* one run of the two exports on a list of drafts
  poolRun,      \* one runWithConcurrency on tasks that return values
  backoffRun    \* one failed attempt of callLLM and the wait it programs

vars == <<drafts, apiKey, autoLoop, maxPasses, concurrency, busy, fa, batches,
          calls, nreq, reqCap, stranded, script, last, gateRun, linkRun,
          textRun, mount, docs, pending, uids, session, exportRun, poolRun,
          backoffRun>>

\* ------------------------------------------------------------ documents
\* Working HTML: q is how the gate judges it, rev counts the rewrites stored in
\* the draft (0: as uploaded), base is the rev of the HTML the link filter
\* compared the rewrite with.
UploadHtml(q) == [q |-> q, rev |-> 0, base |-> 0]

\* stripNewUrls(originalHtml, newHtml, allow): the rewriter's output filtered
\* against the HTML captured at dispatch
stripNewUrls(originalHtml, content) == [q |-> content, base |-> originalHtml.rev]

NoGate == [def |-> FALSE, pass |-> FALSE, src |-> 0]

\* The verdict the gate's timer callback computes from (draftHtml, primary,
\* targets): pass is the AND of the checks; src records the HTML it was computed from.
GateResult(html) == [def |-> TRUE, pass |-> (html.q = "good"), src |-> html.rev]

NewDraft(q, p) == [html |-> UploadHtml(q), gate |-> NoGate, primary |-> p]

\* const passed / const failed
IsPassed(x) == x.gate.def /\ x.gate.pass
IsFailedNoGateToo(x) == ~x.gate.pass
IsFailed(x) == x.gate.def /\ ~x.gate.pass
Passed(ds) == {d \in DOMAIN ds : IsPassed(ds[d])}
Failed(ds) == {d \in DOMAIN ds : IsFailed(ds[d])}

\* a set of draft ids as the array lists them (upload order)
RECURSIVE InOrder(_)
InOrder(S) ==
  IF S = {} THEN <<>>
  ELSE LET m == CHOOSE x \in S : \A y \in S : x <= y
       IN <<m>> \o InOrder(S \ {m})

\* drafts.filter((d) => d.gate && !d.gate.pass), each element the captured draft
NeedFix(ds) ==
  LET ids == InOrder(Failed(ds))
  IN [k \in 1..Len(ids) |-> [id |-> ids[k], html |-> ds[ids[k]].html]]

\* ------------------------------------------------------------ callLLM
\* line 255: a failed attempt is retried iff attempts remain and the failure is transient
ShouldRetryOnly429(attempt, status) ==
  attempt < maxAttempts - 1 /\ status = 429
ShouldRetryAnyStatus(attempt, status) ==
  attempt < maxAttempts - 1 /\ (status = 429 \/ status >= 400)
ShouldRetry(attempt, status) ==
  attempt < maxAttempts - 1 /\ (status = 429 \/ status >= 500)

\* line 261: throw e, the error caught by the frame of the current attempt
\* (seen: the statuses the attempts of the call failed with, the current one last)
RethrownFirst(seen) == Head(seen)
Rethrown(seen) == Last(seen)

\* line 213 and doFetch: a call (or a retry) with a key issues one HTTP request,
\* a call without one throws before any request
callLLMEntry(key) == IF key = "" THEN "threw" ELSE "fetch"

NoLast == [kind |-> "none", status |-> 0, value |-> "", attempt |-> 0]

\* no evaluation and no link filtering is under observation
NoRun == [phase |-> "none"]

\* ------------------------------------------------------------ orchestration
\* The part of the state the promise continuations read and write, threaded
\* through the operators below so that one event's whole chain is one step.
State ==
  [drafts |-> drafts, busy |-> busy, fa |-> fa, batches |-> batches,
   calls |-> calls, nreq |-> nreq, stranded |-> stranded, last |-> last]

InFlight(cs, b) == {c \in DOMAIN cs : cs[c].batch = b}

Without(f, x) == [y \in DOMAIN f \ {x} |-> f[y]]

\* a batch whose workers have all ended is dropped; the tasks it never started
\* are remembered
Reap(S) ==
  LET dead == {b \in DOMAIN S.batches : InFlight(S.calls, b) = {}}
      left == UNION {{S.batches[b].tasks[k].id : k \in (S.batches[b].i + 1)..Len(S.batches[b].tasks)}
                     : b \in dead}
  IN [S EXCEPT !.batches = [b \in DOMAIN S.batches \ dead |-> S.batches[b]],
               !.stranded = @ \cup left]

Commit(S0) ==
  LET S == Reap(S0)
  IN /\ drafts' = S.drafts
     /\ busy' = S.busy
     /\ fa' = S.fa
     /\ batches' = S.batches
     /\ calls' = S.calls
     /\ nreq' = S.nreq
     /\ stranded' = S.stranded
     /\ last' = S.last

\* fixOne up to its await: buildFixPrompt(d), originalHtml = d.html, callLLM(...)
\* task is the draft object the caller holds; b, idx place it in a batch (b = 0: "Fix this")
fixOneStart(S, task, b, idx, key) ==
  LET c == Fresh(DOMAIN S.calls)
      call == [doc |-> task.id, orig |-> task.html,
               batch |-> b, idx |-> idx, key |-> key, attempt |-> 0,
               phase |-> callLLMEntry(key)]
      counted == b # 0 /\ b = S.fa.batch /\ S.fa.pc = "await"
  IN [S EXCEPT !.nreq = IF call.phase = "fetch" THEN @ + 1 ELSE @,
               !.calls = (c :> call) @@ S.calls,
               !.fa.disp = IF counted THEN [@ EXCEPT ![task.id] = @ + 1] ELSE @]

\* one worker of runWithConcurrency up to its next await:
\* while (i < tasks.length) { const cur = i++; results[cur] = await tasks[cur]() }
workerLoop(S, b) ==
  LET B == S.batches[b]
  IN IF B.i < Len(B.tasks)
     THEN fixOneStart([S EXCEPT !.batches[b].i = B.i + 1],
                      B.tasks[B.i + 1], b, B.i, B.key)
     ELSE S

\* Array(Math.max(1, pool)): the number of workers
NumWorkersOneMore(pool) == Max(1, pool) + 1
NumWorkers(pool) == Max(1, pool)

RECURSIVE Spawn(_, _, _)
Spawn(S, b, n) == IF n = 0 THEN S ELSE Spawn(workerLoop(S, b), b, n - 1)

\* runWithConcurrency(pool, tasks) up to await Promise.all(workers): every worker
\* runs synchronously to its first await
runWithConcurrency(S, b, pool, tasks, key) ==
  LET B == [tasks |-> tasks, i |-> 0, pool |-> pool, key |-> key, rejected |-> FALSE]
  IN Spawn([S EXCEPT !.batches = (b :> B) @@ @], b, NumWorkers(pool))

\* fixAll: finally { setBusy(false) }, reached by break, by the loop condition
\* or by the exception of a rejected batch
fixAllFinish(S, why) ==
  [S EXCEPT !.busy = FALSE, !.fa.pc = "done", !.fa.exit = why, !.fa.drafts = <<>>,
            !.fa.batch = 0]

\* for (...; pass <= maxPasses; ...): the loop condition
LoopContinues(pass, limit) == pass <= limit

\* fixAll: the loop condition and one pass up to await runWithConcurrency;
\* drafts is the array the closure captured when the handler was created
fixAllPass(S, pass) ==
  LET needFix == NeedFix(S.fa.drafts)
      b == Fresh(DOMAIN S.batches)
  IN IF ~LoopContinues(pass, S.fa.maxPasses) THEN fixAllFinish(S, "exhausted")
     ELSE IF Len(needFix) = 0 THEN fixAllFinish(S, "converged")
     ELSE runWithConcurrency(
            [S EXCEPT !.fa.pc = "await", !.fa.batch = b, !.fa.pass = pass],
            b, S.fa.concurrency, needFix, S.fa.key)

\* fixAll after await runWithConcurrency resolved: if (!autoLoop) break, else the 50 ms pause
fixAllAfterBatch(S) ==
  IF ~S.fa.autoLoop THEN fixAllFinish(S, "single") ELSE [S EXCEPT !.fa.pc = "sleep", !.fa.batch = 0]

\* a worker whose task resolved: next loop iteration; when the last worker
\* returns and none has rejected, Promise.all resolves and fixAll goes on
workerResumes(S, b) ==
  LET S1 == workerLoop(S, b)
  IN IF InFlight(S1.calls, b) = {} /\ ~S1.batches[b].rejected
     THEN fixAllAfterBatch(S1)
     ELSE S1

\* a worker whose task rejected: the worker's promise rejects, Promise.all rejects
\* on the first rejection and fixAll leaves through finally
workerRejects(S, b) ==
  IF S.batches[b].rejected THEN S
  ELSE fixAllFinish([S EXCEPT !.batches[b].rejected = TRUE], "rejected")

\* fixOne after await callLLM: stripNewUrls against the captured originalHtml, then
\* setDrafts(list.map(x => x.id === d.id ? {...x, fixedHtml: html, html, history+fix} : x))
fixOneApply(S, call, content) ==
  LET html == stripNewUrls(call.orig, content)
  IN [S EXCEPT !.drafts =
        [x \in DOMAIN S.drafts |->
           IF x = call.doc
           THEN [S.drafts[x] EXCEPT !.html = [q |-> html.q, rev |-> @.rev + 1, base |-> html.base]]
           ELSE S.drafts[x]]]

\* callLLM returned content to its caller
callResolved(S, c, content) ==
  LET call == S.calls[c]
      S1 == [S EXCEPT !.calls = Without(@, c)]
  IN IF call.doc = 0
     THEN [S1 EXCEPT !.last = [kind |-> "ok", status |-> 200, value |-> content,
                               attempt |-> call.attempt]]
     ELSE LET S2 == fixOneApply(S1, call, content)
          IN IF call.batch = 0 THEN S2 ELSE workerResumes(S2, call.batch)

\* callLLM threw: fixOne rejects without touching the draft
callRejectedStoresResult(S, c, status) == callResolved(S, c, "bad")
callRejected(S, c, status) ==
  LET call == S.calls[c]
      S1 == [S EXCEPT !.calls = Without(@, c)]
  IN IF call.doc = 0
     THEN [S1 EXCEPT !.last = [kind |-> "err", status |-> status, value |-> "",
                               attempt |-> call.attempt]]
     ELSE IF call.batch = 0 THEN S1 ELSE workerRejects(S1, call.batch)


\* ------------------------------------------------------------ bounding the run
\* tasks that the batches with a live worker have still to start
RECURSIVE Outstanding(_, _)
Outstanding(bs, B) ==
  IF B = {} THEN 0
  ELSE LET b == CHOOSE x \in B : TRUE
       IN (Len(bs[b].tasks) - bs[b].i) + Outstanding(bs, B \ {b})

\* requests the later passes of the running fixAll will issue at least
Planned ==
  IF fa.pc \in {"await", "sleep"} /\ fa.autoLoop /\ fa.pass < fa.maxPasses
  THEN (fa.maxPasses - fa.pass) * Len(NeedFix(fa.drafts))
  ELSE 0

\* n more requests can be admitted without exceeding the cap
Room(n) == nreq + Outstanding(batches, DOMAIN batches) + Planned + n <= reqCap

\* ------------------------------------------------------------ actions
NoFixAll ==
  [pc |-> "idle", pass |-> 0, batch |-> 0, drafts |-> <<>>, key |-> "",
   autoLoop |-> FALSE, maxPasses |-> 0, concurrency |-> 0,
   need |-> {}, disp |-> [d \in Docs |-> 0], exit |-> ""]

\* DensityGateV2: the 100 ms timer of the evaluation effect fires and onEvaluate
\* stores the verdict. The effect returns early without html or primary. Every
\* render re-arms the timer, and the render that follows the last fix of a pass
\* precedes fixAll's 50 ms pause, so no timer fires during the pause.
Evaluate(d) ==
  /\ d \in DOMAIN drafts
  /\ drafts[d].primary # ""
  /\ fa.pc # "sleep"
  /\ drafts' = [drafts EXCEPT ![d].gate = GateResult(drafts[d].html)]
  /\ UNCHANGED <<gateRun, linkRun, textRun, mount, docs, pending, uids, session, exportRun, poolRun, backoffRun, apiKey, autoLoop, maxPasses, concurrency, busy, fa, batches,
                 calls, nreq, reqCap, stranded, script, last>>

\* "Fix this" on a card of Didn't Pass: disabled={busy || !apiKey}, onClick fixOne(d)
ClickFixThis(d) ==
  /\ d \in Failed(drafts)
  /\ ~busy
  /\ apiKey # ""
  /\ Room(1)
  /\ Commit(fixOneStart(State, [id |-> d, html |-> drafts[d].html], 0, 0, apiKey))
  /\ UNCHANGED <<gateRun, linkRun, textRun, mount, docs, pending, uids, session, exportRun, poolRun, backoffRun, apiKey, autoLoop, maxPasses, concurrency, reqCap, script>>

\* "Auto-fix": disabled={busy || failed.length === 0 || !apiKey}, onClick fixAll:
\* setBusy(true), then the first pass up to its await.
\* need and disp observe the run: the drafts whose verdict is a failure at the
\* click, and how many calls the run has dispatched for each draft.
ClickAutoFix ==
  /\ ~busy
  /\ Failed(drafts) # {}
  /\ apiKey # ""
  /\ Room(Cardinality(Failed(drafts)) * (IF autoLoop THEN maxPasses ELSE 1))
  /\ Commit(fixAllPass(
       [State EXCEPT !.busy = TRUE,
                     !.fa = [pc |-> "run", pass |-> 1, batch |-> 0, drafts |-> drafts,
                             key |-> apiKey, autoLoop |-> autoLoop,
                             maxPasses |-> maxPasses, concurrency |-> concurrency,
                             need |-> {d \in DOMAIN drafts :
                                         drafts[d].gate.def /\ ~drafts[d].gate.pass},
                             disp |-> [d \in Docs |-> 0], exit |-> ""]],
       1))
  /\ UNCHANGED <<gateRun, linkRun, textRun, mount, docs, pending, uids, session, exportRun, poolRun, backoffRun, apiKey, autoLoop, maxPasses, concurrency, reqCap, script>>

\* fixAll: the 50 ms pause ends; pass++, loop condition, next pass
SleepDone ==
  /\ fa.pc = "sleep"
  /\ Commit(fixAllPass(State, fa.pass + 1))
  /\ UNCHANGED <<gateRun, linkRun, textRun, mount, docs, pending, uids, session, exportRun, poolRun, backoffRun, apiKey, autoLoop, maxPasses, concurrency, reqCap, script>>

\* doFetch: the response is ok and carries content
HttpOk(c, q) ==
  /\ c \in DOMAIN calls
  /\ calls[c].phase = "fetch"
  /\ script' = IF calls[c].doc = 0 THEN Append(script, 200) ELSE script
  /\ Commit(callResolved(State, c, q))
  /\ UNCHANGED <<gateRun, linkRun, textRun, mount, docs, pending, uids, session, exportRun, poolRun, backoffRun, apiKey, autoLoop, maxPasses, concurrency, reqCap>>

\* doFetch throws (status s; 0: an error without status); the catch block of
\* callLLM either schedules the retry or rethrows
HttpFail(c, s) ==
  /\ c \in DOMAIN calls
  /\ calls[c].phase = "fetch"
  /\ ShouldRetry(calls[c].attempt, s) => Room(1)
  /\ script' = IF calls[c].doc = 0 THEN Append(script, s) ELSE script
  /\ IF ShouldRetry(calls[c].attempt, s)
     THEN Commit([State EXCEPT !.calls[c].phase = "wait"])
     ELSE Commit(callRejected(State, c,
                   Rethrown(IF calls[c].doc = 0 THEN Append(script, s) ELSE <<s>>)))
  /\ UNCHANGED <<gateRun, linkRun, textRun, mount, docs, pending, uids, session, exportRun, poolRun, backoffRun, apiKey, autoLoop, maxPasses, concurrency, reqCap>>

\* the backoff timer fires: return callLLM(provider, apiKey, system, user, attempt + 1)
BackoffDone(c) ==
  /\ c \in DOMAIN calls
  /\ calls[c].phase = "wait"
  /\ Commit([State EXCEPT !.calls[c].attempt = @ + 1,
                          !.calls[c].phase = callLLMEntry(calls[c].key),
                          !.nreq = @ + 1])
  /\ UNCHANGED <<gateRun, linkRun, textRun, mount, docs, pending, uids, session, exportRun, poolRun, backoffRun, apiKey, autoLoop, maxPasses, concurrency, reqCap, script>>

\* callLLM invoked directly (not through fixOne): the entry of the first frame
Invoke(c) ==
  /\ c \in DOMAIN calls
  /\ calls[c].phase = "entry"
  /\ IF callLLMEntry(calls[c].key) = "threw"
     THEN Commit(callRejected(State, c, 0))
     ELSE Commit([State EXCEPT !.calls[c].phase = "fetch", !.nreq = @ + 1])
  /\ UNCHANGED <<gateRun, linkRun, textRun, mount, docs, pending, uids, session, exportRun, poolRun, backoffRun, apiKey, autoLoop, maxPasses, concurrency, reqCap, script>>

\* ------------------------------------------------------------ specifications
\* The page after mount and session restore: the drafts of the session, not yet
\* evaluated; the settings are the defaults or what the restore put in their place.
Init ==
  /\ drafts \in [Docs -> {NewDraft(q, p) : q \in Contents, p \in Primaries}]
  /\ apiKey \in ApiKeys
  /\ autoLoop \in BOOLEAN
  /\ maxPasses \in PassSettings
  /\ concurrency \in PoolSettings
  /\ busy = FALSE
  /\ fa = NoFixAll
  /\ batches = <<>>
  /\ calls = <<>>
  /\ nreq = 0
  /\ reqCap = MaxRequests
  /\ stranded = {}
  /\ script = <<>>
  /\ last = NoLast
  /\ gateRun = NoRun
  /\ linkRun = NoRun
  /\ textRun = NoRun
  /\ mount = NoRun
  /\ docs = <<>>
  /\ pending = <<>>
  /\ uids = 0
  /\ session = NoRun
  /\ exportRun = NoRun
  /\ poolRun = NoRun
  /\ backoffRun = NoRun

Next ==
  \/ \E d \in Docs : Evaluate(d)
  \/ \E d \in Docs : ClickFixThis(d)
  \/ ClickAutoFix
  \/ SleepDone
  \/ \E c \in 1..reqCap, q \in Contents : HttpOk(c, q)
  \/ \E c \in 1..reqCap, s \in Statuses : HttpFail(c, s)
  \/ \E c \in 1..reqCap : BackoffDone(c)

Spec == Init /\ [][Next]_vars

\* callLLM on its own, against a transport that answers each attempt with
\* content or with a failure status: one invocation, with the key apiKey or
\* without a key.
InitLLM ==
  /\ drafts = <<>>
  /\ apiKey \in ApiKeys
  /\ autoLoop = TRUE
  /\ maxPasses = 1
  /\ concurrency = 1
  /\ busy = FALSE
  /\ fa = NoFixAll
  /\ batches = <<>>
  /\ calls = (1 :> [doc |-> 0, orig |-> UploadHtml("bad"),
                    batch |-> 0, idx |-> 0, key |-> apiKey, attempt |-> 0,
                    phase |-> "entry"])
  /\ nreq = 0
  /\ reqCap = MaxScript
  /\ stranded = {}
  /\ script = <<>>
  /\ last = NoLast
  /\ gateRun = NoRun
  /\ linkRun = NoRun
  /\ textRun = NoRun
  /\ mount = NoRun
  /\ docs = <<>>
  /\ pending = <<>>
  /\ uids = 0
  /\ session = NoRun
  /\ exportRun = NoRun
  /\ poolRun = NoRun
  /\ backoffRun = NoRun

NextLLM ==
  \/ \E c \in 1..reqCap : Invoke(c)
  \/ \E c \in 1..reqCap, q \in Contents : HttpOk(c, q)
  \/ \E c \in 1..reqCap, s \in Statuses : HttpFail(c, s)
  \/ \E c \in 1..reqCap : BackoffDone(c)

SpecLLM == InitLLM /\ [][NextLLM]_vars

\* ------------------------------------------------------------ link filter
\* href attributes as written in the markup
Hrefs ==
  {"https://old.example/page", "HTTPS://Old.Example/page",
   "https://trusted.com/", "https://cdn.trusted.com/a",
   "https://nottrusted.com/", "https://evil.example/x", "http://[bad"}
Texts == {"", "docs"}
\* allowDomains after split(","), trim, filter(Boolean); a domain is written as
\* its labels and dots, like a hostname
AllowLists == {<<>>, << <<"trusted", ".", "com">> >>}

\* new URL(s): the serialised href and the hostname, or ok = FALSE when the
\* constructor throws. The parser lower-cases scheme and host.
ParseUrl(s) ==
  CASE s = "https://old.example/page" ->
         [ok |-> TRUE, href |-> "https://old.example/page",
          hostname |-> <<"old", ".", "example">>]
    [] s = "HTTPS://Old.Example/page" ->
         [ok |-> TRUE, href |-> "https://old.example/page",
          hostname |-> <<"old", ".", "example">>]
    [] s = "https://trusted.com/" ->
         [ok |-> TRUE, href |-> "https://trusted.com/",
          hostname |-> <<"trusted", ".", "com">>]
    [] s = "https://cdn.trusted.com/a" ->
         [ok |-> TRUE, href |-> "https://cdn.trusted.com/a",
          hostname |-> <<"cdn", ".", "trusted", ".", "com">>]
    [] s = "https://nottrusted.com/" ->
         [ok |-> TRUE, href |-> "https://nottrusted.com/",
          hostname |-> <<"not", "trusted", ".", "com">>]
    [] s = "https://evil.example/x" ->
         [ok |-> TRUE, href |-> "https://evil.example/x",
          hostname |-> <<"evil", ".", "example">>]
    [] OTHER -> [ok |-> FALSE, href |-> s, hostname |-> <<>>]

\* an <a href> element and the text node that replaces it
Anchor(h, t) == [tag |-> "a", href |-> h, text |-> t]
TextNode(t) == [tag |-> "#text", text |-> t]

\* HTMLAnchorElement.href: the attribute resolved to a URL, or the attribute as
\* written when it does not parse
AnchorHref(a) == IF ParseUrl(a.href).ok THEN ParseUrl(a.href).href ELSE a.href

\* String.prototype.endsWith
EndsWith(str, suffix) ==
  /\ Len(str) >= Len(suffix)
  /\ SubSeq(str, Len(str) - Len(suffix) + 1, Len(str)) = suffix

\* extractUrls(html): new URL(a.href).href of every a[href] for which it does not throw
extractUrls(html) ==
  {ParseUrl(AnchorHref(html[k])).href :
     k \in {j \in 1..Len(html) : ParseUrl(AnchorHref(html[j])).ok}}

\* u.hostname === dom || u.hostname.endsWith(`.${dom}`)
HostAllowedNoDot(hostname, dom) == hostname = dom \/ EndsWith(hostname, dom)
HostAllowed(hostname, dom) == hostname = dom \/ EndsWith(hostname, <<".">> \o dom)

\* lines 195-202: ok for one anchor of the revised document
LinkOkIgnoresOriginal(a, before, allowDomains) ==
  LET u == ParseUrl(AnchorHref(a))
  IN u.ok /\ \E k \in 1..Len(allowDomains) : HostAllowed(u.hostname, allowDomains[k])
LinkOk(a, before, allowDomains) ==
  LET href == AnchorHref(a)
      u == ParseUrl(href)
  IN \/ href \in before
     \/ u.ok /\ \E k \in 1..Len(allowDomains) : HostAllowed(u.hostname, allowDomains[k])

\* stripNewUrls(originalHtml, newHtml, allowDomains) on the anchors of the two
\* documents: an anchor that is not ok is replaced by a text node of its textContent
stripNewUrlsDom(originalHtml, newHtml, allowDomains) ==
  LET before == extractUrls(originalHtml)
  IN [k \in 1..Len(newHtml) |->
        IF LinkOk(newHtml[k], before, allowDomains)
        THEN newHtml[k]
        ELSE TextNode(newHtml[k].text)]

SeqsUpTo(S, n) == UNION {[1..k -> S] : k \in 0..n}

\* the rest of the page is not involved in a run of a pure function
PageIdle ==
  /\ drafts = <<>>
  /\ apiKey = ""
  /\ autoLoop = TRUE
  /\ maxPasses = 1
  /\ concurrency = 1
  /\ busy = FALSE
  /\ fa = NoFixAll
  /\ batches = <<>>
  /\ calls = <<>>
  /\ nreq = 0
  /\ reqCap = 0
  /\ stranded = {}
  /\ script = <<>>
  /\ last = NoLast

pageVars == <<drafts, apiKey, autoLoop, maxPasses, concurrency, busy, fa, batches,
              calls, nreq, reqCap, stranded, script, last>>

\* stripNewUrls applied once to an original document, a revised document and
\* an allow-list
InitLinks ==
  /\ PageIdle
  /\ gateRun = NoRun
  /\ textRun = NoRun
  /\ mount = NoRun
  /\ docs = <<>>
  /\ pending = <<>>
  /\ uids = 0
  /\ session = NoRun
  /\ exportRun = NoRun
  /\ poolRun = NoRun
  /\ backoffRun = NoRun
  /\ \E o \in SeqsUpTo({Anchor(h, "docs") : h \in Hrefs}, MaxOriginalLinks),
        r \in SeqsUpTo({Anchor(h, t) : h \in Hrefs, t \in Texts}, MaxRevisedLinks),
        al \in AllowLists :
       linkRun = [phase |-> "args", originalHtml |-> o, newHtml |-> r,
                  allowDomains |-> al]

StripNewUrlsReturns ==
  /\ linkRun.phase = "args"
  /\ linkRun' = [phase |-> "returned", originalHtml |-> linkRun.originalHtml,
                 newHtml |-> linkRun.newHtml, allowDomains |-> linkRun.allowDomains,
                 out |-> stripNewUrlsDom(linkRun.originalHtml, linkRun.newHtml,
                                         linkRun.allowDomains)]
  /\ UNCHANGED <<pageVars, gateRun, textRun, mount, docs, pending, uids, session, exportRun, poolRun, backoffRun>>

NextLinks == StripNewUrlsReturns

SpecLinks == InitLinks /\ [][NextLinks]_vars

\* ------------------------------------------------------------ density gate
\* A number of type double that is a percentage: h is the value in hundredths
\* of a percent, d tells which double it is: the one nearest to h/100 (0), the
\* next one below (-1) or the next one above (1). The order of the codes is the
\* order of the doubles.
Dbl(h, d) == 10 * h + d

\* (matches / words.length) * 100 in IEEE arithmetic: where the result lies with
\* respect to the double nearest to the exact quotient
\* (7/500*100 = 1.4000000000000001, 9/1000*100 = 0.8999999999999999,
\*  14/1000*100 = 1.4000000000000001, 18/1000*100 = 1.7999999999999998)
RatioRounding(matches, words) ==
  CASE <<matches, words>> = <<7, 500>> -> 1
    [] <<matches, words>> = <<9, 1000>> -> -1
    [] <<matches, words>> = <<14, 1000>> -> 1
    [] <<matches, words>> = <<18, 1000>> -> -1
    [] OTHER -> 0

\* (v / 100) * 100 for a percentage typed into a target field, v in hundredths:
\* (0.9/100)*100 = 0.9000000000000001, (1.4/100)*100 = 1.4
TypedRounding(v) == IF v = 90 THEN 1 ELSE 0

\* the texts under evaluation, by what the metrics see: words and occurrences
\* of the primary keyword (a single word), readability, and the words that
\* matter to the brand check
WordsAndMatches ==
  {<<0, 0>>, <<500, 5>>, <<500, 7>>, <<800, 8>>, <<1000, 5>>, <<1000, 9>>,
   <<1000, 12>>, <<1000, 14>>, <<1000, 18>>, <<1000, 20>>, <<1200, 12>>,
   <<1500, 18>>}
FleschScores == {50, 60}
BrandWords == {{}, {"PacketDrip"}, {"PacketDrip", "BITCANS"}}
Articles ==
  {[wordCount |-> wm[1], matches |-> wm[2], fleschScore |-> f, words |-> ws] :
     wm \in WordsAndMatches, f \in FleschScores, ws \in BrandWords}

\* a field of the targets struct: absent, or present with a value; a density
\* target is held as the percentage it was typed as, in hundredths
Absent == [set |-> FALSE, v |-> 0]
AbsentList == [set |-> FALSE, v |-> <<>>]
Given(v) == [set |-> TRUE, v |-> v]
\* setTargets: (+e.target.value || 0) / 100 for the density fields, so 0 is a
\* value they take; +e.target.value || undefined for the other two
TargetsSet ==
  [primaryMin : {Absent, Given(0), Given(90)},
   primaryMax : {Absent, Given(0), Given(140)},
   wordCountMin : {Absent, Given(1000)},
   fleschMin : {Absent, Given(60)},
   brandTokens : {AbsentList, Given(<<>>), Given(<<"packetdrip">>),
                  Given(<<"Drip", "BitCans">>), Given(<<"Zeta", "BitCans", "Acme">>)}]

\* String.prototype.toLowerCase
toLowerCase(str) ==
  CASE str = "PacketDrip" -> "packetdrip"
    [] str = "BITCANS" -> "bitcans"
    [] str = "BitCans" -> "bitcans"
    [] str = "Drip" -> "drip"
    [] str = "Zeta" -> "zeta"
    [] str = "Acme" -> "acme"
    [] OTHER -> str

\* the strings of interest that occur inside a word
SubstringsOf(word) ==
  CASE word = "packetdrip" -> {"packetdrip", "packet", "drip"}
    [] word = "PacketDrip" -> {"PacketDrip", "Packet", "Drip"}
    [] OTHER -> {word}

\* String.prototype.includes on a text given by its words
includes(textWords, str) == \E w \in textWords : str \in SubstringsOf(w)

\* a || b on a target field: an absent field and a field holding 0 are both falsy
OrDefault(field, default) == IF field.set /\ field.v # 0 THEN field.v ELSE default

\* line 102: targets.wordCountMin || 1200
wordCountMin(targets) == OrDefault(targets.wordCountMin, 1200)
\* line 110: (targets.primaryMin || 0.01) * 100
primaryMin(targets) ==
  IF targets.primaryMin.set /\ targets.primaryMin.v # 0
  THEN Dbl(targets.primaryMin.v, TypedRounding(targets.primaryMin.v))
  ELSE Dbl(100, 0)
\* line 111: (targets.primaryMax || 0.018) * 100, and 0.018 * 100 = 1.7999999999999998
primaryMax(targets) ==
  IF targets.primaryMax.set /\ targets.primaryMax.v # 0
  THEN Dbl(targets.primaryMax.v, TypedRounding(targets.primaryMax.v))
  ELSE Dbl(180, -1)
\* line 124: targets.fleschMin || 55
fleschMin(targets) == OrDefault(targets.fleschMin, 55)

\* calculateKeywordDensity for a one-word keyword
calculateKeywordDensity(article) ==
  IF article.wordCount > 0
  THEN Dbl((article.matches * 10000) \div article.wordCount,
           RatioRounding(article.matches, article.wordCount))
  ELSE Dbl(0, 0)

\* lines 101-107: the word count check
WordCountCheckStrict(article, targets) ==
  LET min == wordCountMin(targets)
  IN [pass |-> article.wordCount > min,
      label |-> [name |-> "Word count", args |-> <<article.wordCount, min>>],
      hint |-> IF article.wordCount <= min
               THEN [text |-> "Need more words", args |-> <<min - article.wordCount>>]
               ELSE [text |-> "Good word count", args |-> <<>>]]
WordCountCheck(article, targets) ==
  LET min == wordCountMin(targets)
  IN [pass |-> article.wordCount >= min,
      label |-> [name |-> "Word count", args |-> <<article.wordCount, min>>],
      hint |-> IF article.wordCount < min
               THEN [text |-> "Need more words", args |-> <<min - article.wordCount>>]
               ELSE [text |-> "Good word count", args |-> <<>>]]

\* lines 109-121: the primary density check; the label shows toFixed(2)
DensityCheck(article, targets) ==
  LET primaryDensity == calculateKeywordDensity(article)
      min == primaryMin(targets)
      max == primaryMax(targets)
  IN [pass |-> primaryDensity >= min /\ primaryDensity <= max,
      label |-> [name |-> "Primary density", args |-> <<(primaryDensity + 5) \div 10>>],
      hint |-> IF primaryDensity < min
               THEN [text |-> "Too low", args |-> <<min, max>>]
               ELSE IF primaryDensity > max
                    THEN [text |-> "Too high", args |-> <<min, max>>]
                    ELSE [text |-> "Good density", args |-> <<>>]]

\* lines 123-129: the readability check
ReadabilityCheck(article, targets) ==
  LET min == fleschMin(targets)
  IN [pass |-> article.fleschScore >= min,
      label |-> [name |-> "Readability", args |-> <<article.fleschScore, min>>],
      hint |-> IF article.fleschScore < min
               THEN [text |-> "Content is too complex", args |-> <<>>]
               ELSE [text |-> "Good readability", args |-> <<>>]]

\* line 134: !textLower.includes(token.toLowerCase())
tokenMissingCaseSensitive(article, token) == ~includes(article.words, token)
tokenMissing(article, token) ==
  ~includes({toLowerCase(w) : w \in article.words}, toLowerCase(token))

\* lines 133-139: the brand tokens check
BrandCheck(article, targets) ==
  LET brandTokens == targets.brandTokens.v
      Missing(token) == tokenMissing(article, token)
      missingTokens == SelectSeq(brandTokens, Missing)
  IN [pass |-> Len(missingTokens) = 0,
      label |-> [name |-> "Brand tokens",
                 args |-> <<Len(brandTokens) - Len(missingTokens), Len(brandTokens)>>],
      hint |-> IF Len(missingTokens) > 0
               THEN [text |-> "Missing", args |-> missingTokens]
               ELSE [text |-> "All brand tokens present", args |-> <<>>]]

\* line 132: targets.brandTokens && targets.brandTokens.length > 0
HasBrandTokensAnyArray(targets) == targets.brandTokens.set
HasBrandTokens(targets) == targets.brandTokens.set /\ Len(targets.brandTokens.v) > 0

\* lines 99-140: checks, in the order they are pushed
Checks(article, targets) ==
  <<WordCountCheck(article, targets), DensityCheck(article, targets),
    ReadabilityCheck(article, targets)>>
  \o (IF HasBrandTokens(targets) THEN <<BrandCheck(article, targets)>> ELSE <<>>)

\* line 142: checks.every((check) => check.pass)
somePassed(checks) == \E k \in 1..Len(checks) : checks[k].pass
allPassed(checks) == \A k \in 1..Len(checks) : checks[k].pass

\* lines 144-157
evaluationResult(article, targets) ==
  [pass |-> allPassed(Checks(article, targets)), checks |-> Checks(article, targets)]

\* lines 163-173
fallbackResultNoCheck == [pass |-> FALSE, checks |-> <<>>]
fallbackResult ==
  [pass |-> FALSE,
   checks |-> <<[pass |-> FALSE,
                 label |-> [name |-> "Evaluation error", args |-> <<>>],
                 hint |-> [text |-> "Failed to evaluate content", args |-> <<>>]]>>]

\* One evaluation: the timer callback runs on a text and a targets struct; throws
\* tells whether a step inside the try block throws (new RegExp on a keyword of
\* several words that is no valid pattern).
InitGate ==
  /\ PageIdle
  /\ linkRun = NoRun
  /\ textRun = NoRun
  /\ mount = NoRun
  /\ docs = <<>>
  /\ pending = <<>>
  /\ uids = 0
  /\ session = NoRun
  /\ exportRun = NoRun
  /\ poolRun = NoRun
  /\ backoffRun = NoRun
  /\ \E article \in Articles, targets \in TargetsSet, throws \in BOOLEAN :
       gateRun = [phase |-> "armed", article |-> article, targets |-> targets,
                  throws |-> throws]

\* lines 92-179: the timer fires; try { ... onEvaluate(evaluationResult) }
\* catch { onEvaluate(fallbackResult) }
GateTimer ==
  /\ gateRun.phase = "armed"
  /\ gateRun' = [phase |-> "delivered", article |-> gateRun.article,
                 targets |-> gateRun.targets, throws |-> gateRun.throws,
                 result |-> IF gateRun.throws
                            THEN fallbackResult
                            ELSE evaluationResult(gateRun.article, gateRun.targets)]
  /\ UNCHANGED <<pageVars, linkRun, textRun, mount, docs, pending, uids, session, exportRun, poolRun, backoffRun>>

NextGate == GateTimer

SpecGate == InitGate /\ [][NextGate]_vars

\* ------------------------------------------------------------ text metrics
\* A text is the sequence of its characters. The alphabet has a vowel, an
\* upper-case consonant, a character that is neither a word character nor
\* white space (and that a regular expression reads as "any character"), and
\* white space.
Alphabet == {"a", "B", ".", " "}
Whitespace == {" "}
Vowels == {"a"}
\* \w and '
WordChars == {"a", "b", "B"}
\* the characters of a lower-cased or original text that are not white space
NonWhitespace == (Alphabet \cup {"b"}) \ Whitespace
Strings(n) == UNION {[1..k -> Alphabet] : k \in 0..n}

\* String.prototype.toLowerCase, character by character
lowerCased(text) == [i \in DOMAIN text |-> IF text[i] = "B" THEN "b" ELSE text[i]]

\* str.split(sep).filter(Boolean) where sep matches a run of the characters not
\* in keep: the maximal runs of characters of keep, as <<first, last>>
Runs(text, keep) ==
  {r \in (DOMAIN text) \X (DOMAIN text) :
     /\ r[1] <= r[2]
     /\ \A i \in r[1]..r[2] : text[i] \in keep
     /\ r[1] = 1 \/ text[r[1] - 1] \notin keep
     /\ r[2] = Len(text) \/ text[r[2] + 1] \notin keep}

\* split(/\s+/).filter(Boolean)
splitOnWhitespace(text) ==
  {SubSeq(text, r[1], r[2]) : r \in Runs(text, NonWhitespace)}
countOnWhitespace(text) == Cardinality(Runs(text, NonWhitespace))

\* line 95: text.split(/\s+/).filter(Boolean).length
wordCount(text) == countOnWhitespace(text)

\* analyzeContent, lines 161-163: lower-cased text split on /[^a-z0-9']+/
analyzeContentWordCount(text) == Cardinality(Runs(lowerCased(text), {"a", "b"}))

\* the pattern (or the literal) p occurs in text at position i
MatchesAt(text, p, i, wild) ==
  /\ i + Len(p) - 1 <= Len(text)
  /\ \A k \in 1..Len(p) : (p[k] \in wild) \/ text[i + k - 1] = p[k]

\* the number of matches a global search finds from position i on, each search
\* resuming behind the previous match
RECURSIVE CountFrom(_, _, _, _)
CountFrom(text, p, i, wild) ==
  IF i + Len(p) - 1 > Len(text) THEN 0
  ELSE IF MatchesAt(text, p, i, wild)
       THEN 1 + CountFrom(text, p, i + Len(p), wild)
       ELSE CountFrom(text, p, i + 1, wild)

\* line 52: (textLower.match(new RegExp(keywordLower, "g")) || []).length;
\* in a pattern "." stands for any character
regExpMatches(textLower, keywordLower) == CountFrom(textLower, keywordLower, 1, {"."})

\* lines 40-55, as the fraction n/d of which the result is 100 times
densityOf(text, keyword) ==
  LET words == countOnWhitespace(lowerCased(text))
      keywordWords == splitOnWhitespace(lowerCased(keyword))
      nKeywordWords == countOnWhitespace(lowerCased(keyword))
  IN IF nKeywordWords = 0 THEN [n |-> 0, d |-> 1]
     ELSE IF nKeywordWords = 1
          THEN LET kw == CHOOSE w \in keywordWords : TRUE
                   matches == Cardinality(
                     {r \in Runs(lowerCased(text), NonWhitespace) :
                        SubSeq(lowerCased(text), r[1], r[2]) = kw})
               IN IF words > 0 THEN [n |-> matches, d |-> words] ELSE [n |-> 0, d |-> 1]
          ELSE LET matches == regExpMatches(lowerCased(text), lowerCased(keyword))
               IN IF words > 0 THEN [n |-> matches * nKeywordWords, d |-> words]
                  ELSE [n |-> 0, d |-> 1]

\* text.split(/[.!?]+\s/).filter(Boolean).length: a "." belongs to a separator
\* when the first character behind its run of "." is white space, and so does
\* the white space that follows a "."
InSentenceBreak(text, i) ==
  \/ /\ text[i] = "."
     /\ \E j \in (i + 1)..Len(text) :
          /\ text[j] \in Whitespace
          /\ \A k \in i..(j - 1) : text[k] = "."
  \/ /\ text[i] \in Whitespace
     /\ i > 1
     /\ text[i - 1] = "."
sentencePieces(text) ==
  Cardinality({i \in DOMAIN text :
                 /\ ~InSentenceBreak(text, i)
                 /\ i = 1 \/ InSentenceBreak(text, i - 1)})

\* (word.match(/[aeiouy]{1,2}/gi) || []).length: a run of n vowels gives
\* n/2 matches, rounded up
vowelGroups(word) ==
  LET runs == Runs(word, Vowels)
      F[S \in SUBSET runs] ==
        IF S = {} THEN 0
        ELSE LET r == CHOOSE x \in S : TRUE
             IN ((r[2] - r[1] + 2) \div 2) + F[S \ {r}]
  IN F[runs]

\* words.reduce((total, word) => total + Math.max(1, groups), 0)
syllablesOf(text, keep) ==
  LET runs == Runs(text, keep)
      F[S \in SUBSET runs] ==
        IF S = {} THEN 0
        ELSE LET r == CHOOSE x \in S : TRUE
             IN Max(1, vowelGroups(SubSeq(text, r[1], r[2]))) + F[S \ {r}]
  IN F[runs]

\* Math.round(206.835 - 1.015 * (W / S) - 84.6 * (syl / W)) for W, S > 0
fleschRounded(W, S, syl) ==
  LET num == 206835 * S * W - 1015 * W * W - 84600 * syl * S
      den == 1000 * S * W
  IN (2 * num + den) \div (2 * den)

NaN == [nan |-> TRUE, v |-> 0]
Number(v) == [nan |-> FALSE, v |-> v]

\* lines 57-71: syllables / words.length is 0/0 for a text without a word
calculateFleschScore(text) ==
  LET sentences == Max(1, sentencePieces(text))
      words == Cardinality(Runs(text, WordChars))
      syllables == syllablesOf(text, WordChars)
  IN IF words = 0 THEN NaN
     ELSE Number(fleschRounded(words, sentences, syllables))

\* layout.tsx lines 148-159: W = words.length || 1, S = sentences || 1
fleschReadingEase(text) ==
  LET sentences == Max(1, sentencePieces(text))
      words == Cardinality(Runs(text, WordChars))
      syllables == syllablesOf(text, WordChars)
  IN Number(fleschRounded(Max(1, words), sentences, syllables))

\* the metrics computed once on a text and a keyword
InitText ==
  /\ PageIdle
  /\ gateRun = NoRun
  /\ linkRun = NoRun
  /\ mount = NoRun
  /\ docs = <<>>
  /\ pending = <<>>
  /\ uids = 0
  /\ session = NoRun
  /\ exportRun = NoRun
  /\ poolRun = NoRun
  /\ backoffRun = NoRun
  /\ \E text \in Strings(MaxTextLen), keyword \in Strings(MaxKeywordLen) :
       textRun = [phase |-> "args", text |-> text, keyword |-> keyword]

\* lines 94-97 of the gate, and analyzeContent on the same text
Measure ==
  /\ textRun.phase = "args"
  /\ textRun' = [phase |-> "measured", text |-> textRun.text, keyword |-> textRun.keyword,
                 wordCount |-> wordCount(textRun.text),
                 fleschScore |-> calculateFleschScore(textRun.text),
                 primaryDensity |-> densityOf(textRun.text, textRun.keyword),
                 stats |-> [wordCount |-> analyzeContentWordCount(textRun.text),
                            flesch |-> fleschReadingEase(lowerCased(textRun.text))]]
  /\ UNCHANGED <<pageVars, gateRun, linkRun, mount, docs, pending, uids, session, exportRun, poolRun, backoffRun>>

NextText == Measure

SpecText == InitText /\ [][NextText]_vars

\* ------------------------------------------------------------ mounted gate
\* One DensityGateV2 as the page renders it for a draft: props draftHtml,
\* primary and targets, the pending timer of the evaluation effect, and the
\* verdict onEvaluate stored in the draft.
MountHtmls == {"", "short", "long"}
MountPrimaries == {"", "kw", "c++ tips"}
MountTargets ==
  {[primaryMin |-> Absent, primaryMax |-> Absent, wordCountMin |-> Absent,
    fleschMin |-> Absent, brandTokens |-> Given(b)] : b \in {<<>>, <<"packetdrip">>}}

\* stripHtml and the metrics of lines 94-97 on the two documents, the keyword
\* being "kw"
ArticleOf(draftHtml) ==
  IF draftHtml = "long"
  THEN [wordCount |-> 1200, matches |-> 12, fleschScore |-> 60, words |-> {}]
  ELSE [wordCount |-> 500, matches |-> 5, fleschScore |-> 50, words |-> {}]

\* line 52: new RegExp(keywordLower, "g") throws on "c++ tips" (nothing to repeat)
Throws(primary) == primary = "c++ tips"

\* lines 147-156 and 172: the audit snapshot, with Date.now()
auditJsonCountsClock(draftHtml, primary, targets, now) ==
  [evaluated |-> TRUE, timestamp |-> now,
   wordCount |-> ArticleOf(draftHtml).wordCount + now,
   fleschScore |-> ArticleOf(draftHtml).fleschScore,
   primaryDensity |-> calculateKeywordDensity(ArticleOf(draftHtml)),
   primary |-> primary, targets |-> targets]
auditJson(draftHtml, primary, targets, now) ==
  IF Throws(primary)
  THEN [error |-> TRUE, timestamp |-> now]
  ELSE [evaluated |-> TRUE, timestamp |-> now,
        wordCount |-> ArticleOf(draftHtml).wordCount,
        fleschScore |-> ArticleOf(draftHtml).fleschScore,
        primaryDensity |-> calculateKeywordDensity(ArticleOf(draftHtml)),
        primary |-> primary, targets |-> targets]

\* lines 93-175: what the timer callback hands to onEvaluate
verdictPassesOnce(draftHtml, primary, targets, now) ==
  [pass |-> now <= 1, checks |-> <<>>, auditJson |-> [timestamp |-> now]]
verdict(draftHtml, primary, targets, now) ==
  LET r == IF Throws(primary) THEN fallbackResult
           ELSE evaluationResult(ArticleOf(draftHtml), targets)
  IN [pass |-> r.pass, checks |-> r.checks,
      auditJson |-> auditJson(draftHtml, primary, targets, now)]

NoVerdict == [def |-> FALSE]
NoTimer == [on |-> FALSE]
Props(m) == [draftHtml |-> m.draftHtml, primary |-> m.primary, targets |-> m.targets]

\* lines 86-92 and 181: the effect body run on props p: no timer without html
\* or primary, else a timer whose callback closes over p
armed(p) ==
  IF p.draftHtml = "" \/ p.primary = ""
  THEN NoTimer
  ELSE [on |-> TRUE, draftHtml |-> p.draftHtml, primary |-> p.primary,
        targets |-> p.targets]

\* lines 87-89: the flag behind "Evaluating content..." after the effect body
\* ran on props p: the early return leaves it as it was, else setIsEvaluating(true)
isEvaluatingAfter(p, was) ==
  IF p.draftHtml = "" \/ p.primary = "" THEN was ELSE TRUE

\* The card of a draft after upload or session restore. gate is d.gate; of are
\* the props gate was computed from; prev and prevOf are the verdict delivered
\* before it and its props; evals counts the verdicts delivered since the props
\* last changed; now is the clock.
InitMount ==
  /\ PageIdle
  /\ gateRun = NoRun
  /\ linkRun = NoRun
  /\ textRun = NoRun
  /\ docs = <<>>
  /\ pending = <<>>
  /\ uids = 0
  /\ session = NoRun
  /\ exportRun = NoRun
  /\ poolRun = NoRun
  /\ backoffRun = NoRun
  /\ \E h \in MountHtmls, p \in MountPrimaries, t \in MountTargets :
       mount = [draftHtml |-> h, primary |-> p, targets |-> t,
                timer |-> armed([draftHtml |-> h, primary |-> p, targets |-> t]),
                gate |-> NoVerdict, of |-> NoVerdict,
                prev |-> NoVerdict, prevOf |-> NoVerdict,
                evals |-> 0, now |-> 0,
                isEvaluating |->
                  isEvaluatingAfter([draftHtml |-> h, primary |-> p, targets |-> t], FALSE)]

\* html, keyword or targets change (fixOne, Normalize, updateDraftMeta,
\* setTargets): the page renders, the cleanup of the effect clears the pending
\* timer and the effect runs on the new props
ChangeProps(h, p, t) ==
  /\ mount # NoRun
  /\ [draftHtml |-> h, primary |-> p, targets |-> t] # Props(mount)
  /\ mount' = [mount EXCEPT !.draftHtml = h, !.primary = p, !.targets = t,
                            !.timer = armed([draftHtml |-> h, primary |-> p, targets |-> t]),
                            !.evals = 0,
                            !.isEvaluating =
                              isEvaluatingAfter([draftHtml |-> h, primary |-> p, targets |-> t], @)]
  /\ UNCHANGED <<pageVars, gateRun, linkRun, textRun, docs, pending, uids, session, exportRun, poolRun, backoffRun>>

\* The 100 ms timer fires: the callback evaluates the props it closed over and
\* calls onEvaluate, which stores the verdict with setDrafts. The page renders
\* again and hands the gate a new targets object and a new onEvaluate function
\* (layout.tsx 749-756), two dependencies of the effect: it runs again and
\* arms the next timer. finally { setIsEvaluating(false) } precedes that run.
TimerFires ==
  /\ mount # NoRun
  /\ mount.timer.on
  /\ mount.now < MaxClock
  /\ LET c == mount.timer
         now == mount.now + 1
     IN mount' = [mount EXCEPT
                    !.gate = [def |-> TRUE,
                              result |-> verdict(c.draftHtml, c.primary, c.targets, now)],
                    !.of = [def |-> TRUE, draftHtml |-> c.draftHtml,
                            primary |-> c.primary, targets |-> c.targets],
                    !.prev = mount.gate,
                    !.prevOf = mount.of,
                    !.evals = IF @ < 2 THEN @ + 1 ELSE @,
                    !.now = now,
                    !.timer = armed(Props(mount)),
                    !.isEvaluating = isEvaluatingAfter(Props(mount), FALSE)]
  /\ UNCHANGED <<pageVars, gateRun, linkRun, textRun, docs, pending, uids, session, exportRun, poolRun, backoffRun>>

NextMount ==
  \/ \E h \in MountHtmls, p \in MountPrimaries, t \in MountTargets : ChangeProps(h, p, t)
  \/ TimerFires

SpecMount == InitMount /\ [][NextMount]_vars

\* ------------------------------------------------------------ draft cards
\* The drafts array with the fields the card operations read and write:
\* id, raw, html, meta.primary, useFixConstraints, gate, and the number of
\* "fix" entries of history.
Raws == {"an", "<p>seo text</p>"}
Rewrites == {"<p>better seo text</p>", "<p>worse seo text</p>"}
CardPrimaries == {"", "seo", "text"}

\* lines 86-94: text that holds a tag is kept, other text is wrapped in <p>
normalizeToHtml(raw) == IF raw = "an" THEN "<p>an</p>" ELSE raw

\* analyzeContent, lines 164-171: the most frequent token that is no stop word
\* and longer than two characters; none in "an"
suggestedPrimary(html) == IF html = "<p>an</p>" THEN "" ELSE "seo"

\* the values of d.gate: undefined, the object {} (reading pass gives
\* undefined, which is falsy), and a verdict of the gate
Undefined == [def |-> FALSE, own |-> {}, pass |-> FALSE]
EmptyObject == [def |-> TRUE, own |-> {}, pass |-> FALSE]
VerdictObject(pass) == [def |-> TRUE, own |-> {"pass", "checks", "auditJson"}, pass |-> pass]

\* the gate's verdict on a text for a keyword
Passes(html, primary) == html = "<p>better seo text</p>" /\ primary = "seo"

\* list.map((x) => (x.id === id ? f(x) : x))
MapId(list, id, f(_)) == [k \in DOMAIN list |-> IF list[k].id = id THEN f(list[k]) ELSE list[k]]

\* lines 412-423: the draft onFiles builds; uid() is taken to return an id it
\* has not returned before
newDraft(raw) ==
  [id |-> uids + 1, raw |-> raw,
   html |-> normalizeToHtml(raw),
   primary |-> suggestedPrimary(normalizeToHtml(raw)),
   useFixConstraints |-> TRUE, gate |-> Undefined, fixes |-> 0]

\* line 836: { ...x, html: normalizeToHtml(x.raw) }
normalizedOverRaw(x) == [x EXCEPT !.raw = x.html, !.html = normalizeToHtml(x.raw)]
normalized(x) == [x EXCEPT !.html = normalizeToHtml(x.raw)]

\* line 845: { ...x, gate: { ...x.gate! } }; spreading undefined gives {}
refreshed(x) ==
  [x EXCEPT !.gate = IF x.gate.def THEN x.gate ELSE EmptyObject]

InitDocs ==
  /\ PageIdle
  /\ gateRun = NoRun
  /\ linkRun = NoRun
  /\ textRun = NoRun
  /\ mount = NoRun
  /\ docs = <<>>
  /\ pending = <<>>
  /\ uids = 0
  /\ session = NoRun
  /\ exportRun = NoRun
  /\ poolRun = NoRun
  /\ backoffRun = NoRun

docsOnly == <<pageVars, gateRun, linkRun, textRun, mount, session, exportRun, poolRun,
             backoffRun>>

\* onFiles with one file: setDrafts((d) => [...d, ...newDrafts])
UploadFile(raw) ==
  /\ Len(docs) < MaxDrafts
  /\ uids < MaxUploads
  /\ docs' = Append(docs, newDraft(raw))
  /\ uids' = uids + 1
  /\ UNCHANGED <<docsOnly, pending>>

\* the gate of card i delivers: onEvaluate(d.id, res); it evaluates only with
\* html and primary
GateDelivers(i) ==
  /\ i \in DOMAIN docs
  /\ docs[i].html # ""
  /\ docs[i].primary # ""
  /\ LET v == VerdictObject(Passes(docs[i].html, docs[i].primary))
         f(x) == [x EXCEPT !.gate = v]
     IN docs' = MapId(docs, docs[i].id, f)
  /\ UNCHANGED <<docsOnly, pending, uids>>

\* Fix this on a card of Didn't Pass: fixOne(d) keeps d.id and d.html and
\* awaits callLLM (layout.tsx 476-479)
ClickFix(i) ==
  /\ i \in DOMAIN docs
  /\ IsFailed(docs[i])
  /\ docs[i].fixes < MaxFixes
  /\ Len(pending) < MaxPending
  /\ pending' = Append(pending, [id |-> docs[i].id, originalHtml |-> docs[i].html])
  /\ UNCHANGED <<docsOnly, docs, uids>>

\* lines 485-489: setDrafts((list) => list.map((x) => x.id === d.id ?
\* { ...x, fixedHtml: html, html, history: [...x.history, fix] } : x))
settledUpserts(list, id, html) ==
  IF \E k \in DOMAIN list : list[k].id = id
  THEN [k \in DOMAIN list |->
          IF list[k].id = id THEN [list[k] EXCEPT !.html = html, !.fixes = @ + 1]
          ELSE list[k]]
  ELSE Append(list, [id |-> id, raw |-> "an", html |-> html, primary |-> "",
                     useFixConstraints |-> TRUE, gate |-> Undefined, fixes |-> 1])
settled(list, id, html) ==
  [k \in DOMAIN list |->
     IF list[k].id = id THEN [list[k] EXCEPT !.html = html, !.fixes = @ + 1]
     ELSE list[k]]

\* the call of a pending fixOne settles: with a rewrite fixOne stores it; when
\* callLLM threw, fixOne rejects and stores nothing
FixSettles(c, outcome) ==
  /\ c \in DOMAIN pending
  /\ pending' = [k \in 1..(Len(pending) - 1) |-> IF k < c THEN pending[k] ELSE pending[k + 1]]
  /\ IF outcome = "threw"
     THEN docs' = docs
     ELSE docs' = settled(docs, pending[c].id, outcome)
  /\ UNCHANGED <<docsOnly, uids>>

\* Normalize, a button of the Un-evaluated cards
ClickNormalize(i) ==
  /\ i \in DOMAIN docs
  /\ ~docs[i].gate.def
  /\ docs' = MapId(docs, docs[i].id, normalized)
  /\ UNCHANGED <<docsOnly, pending, uids>>

\* Refresh, a button of the Un-evaluated cards
ClickRefresh(i) ==
  /\ i \in DOMAIN docs
  /\ ~docs[i].gate.def
  /\ docs' = MapId(docs, docs[i].id, refreshed)
  /\ UNCHANGED <<docsOnly, pending, uids>>

\* updateDraftMeta from the Primary keyword field; the Passed cards have none
EditPrimary(i, p) ==
  /\ i \in DOMAIN docs
  /\ ~IsPassed(docs[i])
  /\ p # docs[i].primary
  /\ LET f(x) == [x EXCEPT !.primary = p]
     IN docs' = MapId(docs, docs[i].id, f)
  /\ UNCHANGED <<docsOnly, pending, uids>>

\* toggleConstraints from the switch; the Passed cards have none
ToggleConstraints(i) ==
  /\ i \in DOMAIN docs
  /\ ~IsPassed(docs[i])
  /\ LET f(x) == [x EXCEPT !.useFixConstraints = ~@]
     IN docs' = MapId(docs, docs[i].id, f)
  /\ UNCHANGED <<docsOnly, pending, uids>>

\* Reset session: setDrafts([])
ResetSession ==
  /\ docs # <<>>
  /\ docs' = <<>>
  /\ UNCHANGED <<docsOnly, pending, uids>>

NextDocs ==
  \/ \E raw \in Raws : UploadFile(raw)
  \/ \E i \in 1..MaxDrafts : GateDelivers(i)
  \/ \E i \in 1..MaxDrafts : ClickFix(i)
  \/ \E c \in 1..MaxPending, o \in Rewrites \cup {"threw"} : FixSettles(c, o)
  \/ \E i \in 1..MaxDrafts : ClickNormalize(i)
  \/ \E i \in 1..MaxDrafts : ClickRefresh(i)
  \/ \E i \in 1..MaxDrafts, p \in CardPrimaries : EditPrimary(i, p)
  \/ \E i \in 1..MaxDrafts : ToggleConstraints(i)
  \/ ResetSession

SpecDocs == InitDocs /\ [][NextDocs]_vars

\* The cards with the scheduling of the browser: a timer the effect of a gate
\* has armed, and that no render clears, fires.
SpecDocsFair ==
  /\ InitDocs
  /\ [][NextDocs]_vars
  /\ \A i \in 1..MaxDrafts : WF_vars(GateDelivers(i))

\* ------------------------------------------------------------ the waits of callLLM
\* One call of callLLM with a key: its attempts and the waits between them.
baseDelay == 800    \* callLLM: const baseDelay = 800
delayCap == 8000    \* callLLM: Math.min(8000, ...)
jitterRange == 200  \* callLLM: Math.random() * 200

\* Math.random() * 200 lies in [0, 200); setTimeout truncates the delay to whole
\* milliseconds, so the jitter counts as one of 0..199
Jitters == {0, 100, jitterRange - 1}

Min(a, b) == IF a <= b THEN a ELSE b

\* line 257: Math.min(8000, baseDelay * Math.pow(2, attempt)) + jitter
delayTwiceJitter(attempt, jitter) == Min(delayCap, baseDelay * 2^attempt) + 2 * jitter
delay(attempt, jitter) == Min(delayCap, baseDelay * 2^attempt) + jitter

backoffOnly == <<pageVars, gateRun, linkRun, textRun, mount, docs, pending, uids,
                 session, exportRun, poolRun>>

InitBackoff ==
  /\ PageIdle
  /\ gateRun = NoRun
  /\ linkRun = NoRun
  /\ textRun = NoRun
  /\ mount = NoRun
  /\ docs = <<>>
  /\ pending = <<>>
  /\ uids = 0
  /\ session = NoRun
  /\ exportRun = NoRun
  /\ poolRun = NoRun
  /\ backoffRun = [phase |-> "fetch", attempt |-> 0, waits |-> <<>>]

\* lines 252-261: doFetch throws with status s; the catch block either programs
\* the wait before the retry or rethrows
AttemptFails(s, jitter) ==
  /\ backoffRun.phase = "fetch"
  /\ IF ShouldRetry(backoffRun.attempt, s)
     THEN backoffRun' = [backoffRun EXCEPT
                           !.phase = "wait",
                           !.waits = Append(@, [attempt |-> backoffRun.attempt,
                                                jitter |-> jitter,
                                                delay |-> delay(backoffRun.attempt, jitter)])]
     ELSE backoffRun' = [backoffRun EXCEPT !.phase = "threw"]
  /\ UNCHANGED backoffOnly

\* lines 258-259: the timer fires; return callLLM(..., attempt + 1)
RetryAfterWait ==
  /\ backoffRun.phase = "wait"
  /\ backoffRun' = [backoffRun EXCEPT !.phase = "fetch", !.attempt = @ + 1]
  /\ UNCHANGED backoffOnly

\* line 251: return await doFetch()
AttemptReturns ==
  /\ backoffRun.phase = "fetch"
  /\ backoffRun' = [backoffRun EXCEPT !.phase = "returned"]
  /\ UNCHANGED backoffOnly

NextBackoff ==
  \/ \E s \in Statuses, jitter \in Jitters : AttemptFails(s, jitter)
  \/ RetryAfterWait
  \/ AttemptReturns

SpecBackoff == InitBackoff /\ [][NextBackoff]_vars

\* ------------------------------------------------------------ runWithConcurrency
\* One runWithConcurrency(pool, tasks) on tasks that return values. Tasks are
\* numbered as the array indexes them, from 0; task k returns ValueOf(k).
MaxTasks == 4       \* tasks handed to runWithConcurrency
MaxPool == 3        \* the pool argument

ValueOf(k) == 100 + k
Hole == 0 - 1       \* an index of results nothing was assigned to

\* line 273: const cur = i++
takeNextPreIncrement(i) == [cur |-> i + 1, i |-> i + 1]
takeNext(i) == [cur |-> i, i |-> i + 1]

\* lines 272-275: one worker up to its next await: it starts the next task, or
\* returns when none is left
poolWorker(r) ==
  IF r.i < r.n
  THEN LET t == takeNext(r.i)
       IN [r EXCEPT !.i = t.i, !.running = @ \cup {t.cur}, !.started = Append(@, t.cur)]
  ELSE [r EXCEPT !.live = @ - 1]

RECURSIVE poolSpawn(_, _)
poolSpawn(r, w) == IF w = 0 THEN r ELSE poolSpawn(poolWorker(r), w - 1)

\* line 277: await Promise.all(workers) resolves when the last worker returned
\* and none has rejected
poolSettle(r) ==
  IF r.phase = "await" /\ r.live = 0 THEN [r EXCEPT !.phase = "resolved"] ELSE r

poolOnly == <<pageVars, gateRun, linkRun, textRun, mount, docs, pending, uids,
              session, exportRun, backoffRun>>

InitPool ==
  /\ PageIdle
  /\ gateRun = NoRun
  /\ linkRun = NoRun
  /\ textRun = NoRun
  /\ mount = NoRun
  /\ docs = <<>>
  /\ pending = <<>>
  /\ uids = 0
  /\ session = NoRun
  /\ exportRun = NoRun
  /\ backoffRun = NoRun
  /\ \E n \in 0..MaxTasks, pool \in 0..MaxPool :
       poolRun = [phase |-> "idle", n |-> n, pool |-> pool, i |-> 0, live |-> 0,
                  running |-> {}, started |-> <<>>, done |-> <<>>, failed |-> {},
                  results |-> [k \in 0..(n - 1) |-> Hole]]

\* lines 267-277: runWithConcurrency is called; every worker runs to its first await
CallPool ==
  /\ poolRun.phase = "idle"
  /\ poolRun' = poolSettle(poolSpawn([poolRun EXCEPT !.phase = "await",
                                                      !.live = NumWorkers(poolRun.pool)],
                                     NumWorkers(poolRun.pool)))
  /\ UNCHANGED poolOnly

\* line 274: the promise of task cur resolves: results[cur] = value, and the
\* worker goes round its loop
TaskResolves(cur) ==
  /\ poolRun.phase # "idle"
  /\ cur \in poolRun.running
  /\ poolRun' = poolSettle(poolWorker(
       [poolRun EXCEPT !.running = @ \ {cur},
                       !.done = Append(@, cur),
                       !.results = [k \in DOMAIN @ \cup {cur} |->
                                      IF k = cur THEN ValueOf(cur) ELSE @[k]]]))
  /\ UNCHANGED poolOnly

\* line 274: the promise of task cur rejects: the worker rejects, and with it
\* Promise.all; the other workers go on
TaskRejects(cur) ==
  /\ poolRun.phase # "idle"
  /\ cur \in poolRun.running
  /\ poolRun' = [poolRun EXCEPT !.running = @ \ {cur},
                                !.failed = @ \cup {cur},
                                !.live = @ - 1,
                                !.phase = "rejected"]
  /\ UNCHANGED poolOnly

NextPool ==
  \/ CallPool
  \/ \E cur \in 0..MaxTasks : TaskResolves(cur)
  \/ \E cur \in 0..MaxTasks : TaskRejects(cur)

SpecPool == InitPool /\ [][NextPool]_vars

\* ------------------------------------------------------------ exports
\* Save all audits and Save passed as ZIP on a list of drafts.
MaxExported == 2    \* drafts in the list the exports run on

\* file names, as the characters they are made of
FileNames == {<<"a", ".", "t", "x", "t">>, <<"a", ".", "m", "d">>, <<"b", ".", "t", "x", "t">>,
              <<"a">>, <<"a", ".", "v", "2", ".", "m", "d">>}
ExportHtmls == {"<p>one</p>", "<p>two</p>"}

\* d.gate: undefined, the object {} that Refresh stores, or a verdict of the gate
ExportGates ==
  {[def |-> FALSE, own |-> {}, pass |-> FALSE, auditJson |-> "undefined"],
   [def |-> TRUE, own |-> {}, pass |-> FALSE, auditJson |-> "undefined"]}
  \cup {[def |-> TRUE, own |-> {"pass", "checks", "auditJson"}, pass |-> p,
         auditJson |-> "snapshot"] : p \in BOOLEAN}

\* name.replace(/\.[^.]+$/, ""): the last dot and what follows it are dropped
\* when at least one character follows that dot
dropExtension(name) ==
  LET dots == {p \in 1..Len(name) : name[p] = "."}
  IN IF dots = {} THEN name
     ELSE LET p == CHOOSE x \in dots : \A y \in dots : y <= x
          IN IF p < Len(name) THEN SubSeq(name, 1, p - 1) ELSE name

\* line 510: d.name.replace(/\.[^.]+$/, "") + "_PASSED.html"
passedPath(name) == dropExtension(name) \o <<"_PASSED.html">>

\* line 472: const passed = drafts.filter((d) => d.gate?.pass)
passedOf(list) == SelectSeq(list, LAMBDA d : d.gate.def /\ d.gate.pass)

\* lines 516-521: the record of one draft in density_audits.json
auditRecord(d) ==
  [id |-> d.id, name |-> d.name,
   passed |-> (d.gate.def /\ d.gate.pass),
   audit |-> IF d.gate.def /\ d.gate.auditJson # "undefined" THEN d.gate.auditJson ELSE "null"]

\* line 115: files.forEach((f) => zip.file(f.path, f.content)); a file added
\* under a path the archive already has replaces the earlier one
RECURSIVE zipOf(_)
zipOf(files) ==
  IF files = <<>> THEN <<>>
  ELSE LET f == files[Len(files)]
           rest == zipOf(SubSeq(files, 1, Len(files) - 1))
       IN (f.path :> f.content) @@ rest

exportOnly == <<pageVars, gateRun, linkRun, textRun, mount, docs, pending, uids,
                session, poolRun, backoffRun>>

InitExport ==
  /\ PageIdle
  /\ gateRun = NoRun
  /\ linkRun = NoRun
  /\ textRun = NoRun
  /\ mount = NoRun
  /\ docs = <<>>
  /\ pending = <<>>
  /\ uids = 0
  /\ session = NoRun
  /\ poolRun = NoRun
  /\ backoffRun = NoRun
  /\ \E n \in 0..MaxExported :
       \E names \in [1..n -> FileNames], gates \in [1..n -> ExportGates],
          htmls \in [1..n -> ExportHtmls] :
         exportRun = [drafts |-> [k \in 1..n |-> [id |-> k, name |-> names[k],
                                                  gate |-> gates[k], html |-> htmls[k]]],
                      savedAudits |-> FALSE, audits |-> <<>>,
                      savedZip |-> FALSE, zip |-> <<>>]

\* lines 515-523: Save all audits
SaveAllAudits ==
  /\ exportRun # NoRun
  /\ exportRun' = [exportRun EXCEPT
                     !.savedAudits = TRUE,
                     !.audits = [k \in DOMAIN exportRun.drafts |-> auditRecord(exportRun.drafts[k])]]
  /\ UNCHANGED exportOnly

\* lines 509-513 and 106-119: Save passed as ZIP
SavePassedAsZip ==
  /\ exportRun # NoRun
  /\ LET passed == passedOf(exportRun.drafts)
         files == [k \in DOMAIN passed |->
                     [path |-> passedPath(passed[k].name), content |-> passed[k].html]]
     IN exportRun' = [exportRun EXCEPT !.savedZip = TRUE, !.zip = zipOf(files)]
  /\ UNCHANGED exportOnly

NextExport ==
  \/ SaveAllAudits
  \/ SavePassedAsZip

SpecExport == InitExport /\ [][NextExport]_vars

\* ------------------------------------------------------------ session
\* The settings of the page, the record under "dg_session" in IndexedDB, and
\* the restore that runs after mount.
MaxEditsWhileRestoring == 1   \* changes the user makes before idbGet has resolved

\* lines 331-343: the useState defaults
DefaultSettings ==
  [drafts |-> <<>>, targets |-> "{}", provider |-> "openai", apiKey |-> "",
   autoLoop |-> TRUE, maxPasses |-> 3, concurrency |-> 3,
   brandTokens |-> "PacketDrip, BitCans, Drip Demons", allowDomains |-> "yourdomain.com"]

\* what the inputs of the page can set each setting to
SettingValues ==
  [drafts |-> {<<>>, <<"draft">>},
   targets |-> {"{}", "{wordCountMin: 800}"},
   provider |-> {"openai", "anthropic"},
   apiKey |-> {"", "sk"},
   autoLoop |-> BOOLEAN,
   maxPasses |-> {1, 3},
   concurrency |-> {1, 3},
   brandTokens |-> {"", "PacketDrip, BitCans, Drip Demons"},
   allowDomains |-> {"", "yourdomain.com", "trusted.com"}]

NoRecord == [saved |-> FALSE, v |-> DefaultSettings]
Record(v) == [saved |-> TRUE, v |-> v]

\* a || b: b when the string a is "", when the number a is 0
OrElseString(a, b) == IF a = "" THEN b ELSE a
OrElseNumber(a, b) == IF a = 0 THEN b ELSE a

\* lines 361-370: the set-calls of the restore, on the record idbGet returned
restored(saved) ==
  [drafts |-> saved.drafts,
   targets |-> saved.targets,
   provider |-> OrElseString(saved.provider, "openai"),
   apiKey |-> OrElseString(saved.apiKey, ""),
   autoLoop |-> saved.autoLoop,
   maxPasses |-> OrElseNumber(saved.maxPasses, 3),
   concurrency |-> OrElseNumber(saved.concurrency, 3),
   brandTokens |-> OrElseString(saved.brandTokens, ""),
   allowDomains |-> OrElseString(saved.allowDomains, "yourdomain.com")]

\* lines 379-393: the persist effect after a render in which a setting changed
persisted(isInitialLoad, settings, stored) ==
  IF isInitialLoad THEN stored ELSE Record(settings)

sessionOnly == <<pageVars, gateRun, linkRun, textRun, mount, docs, pending, uids,
                 exportRun, poolRun, backoffRun>>

\* the first visit: nothing stored, the page mounted, idbGet pending
InitSession ==
  /\ PageIdle
  /\ gateRun = NoRun
  /\ linkRun = NoRun
  /\ textRun = NoRun
  /\ mount = NoRun
  /\ docs = <<>>
  /\ pending = <<>>
  /\ uids = 0
  /\ exportRun = NoRun
  /\ poolRun = NoRun
  /\ backoffRun = NoRun
  /\ session = [isInitialLoad |-> TRUE, settings |-> DefaultSettings,
                stored |-> NoRecord, edits |-> 0]

\* an input, a switch, an upload or Reset session changes one setting; the
\* persist effect follows the render
ChangeSetting(field, value) ==
  /\ session # NoRun
  /\ session.settings[field] # value
  /\ session.isInitialLoad => session.edits < MaxEditsWhileRestoring
  /\ LET settings == [session.settings EXCEPT ![field] = value]
     IN session' = [session EXCEPT
                      !.settings = settings,
                      !.edits = IF session.isInitialLoad THEN @ + 1 ELSE @,
                      !.stored = persisted(session.isInitialLoad, settings, @)]
  /\ UNCHANGED sessionOnly

\* lines 358-376: idbGet resolves; the restore sets the settings from the record,
\* if there is one, and clears isInitialLoad; the persist effect follows the
\* render when a setting changed
RestoreDone ==
  /\ session # NoRun
  /\ session.isInitialLoad
  /\ LET settings == IF session.stored.saved THEN restored(session.stored.v)
                     ELSE session.settings
     IN session' = [session EXCEPT
                      !.isInitialLoad = FALSE,
                      !.settings = settings,
                      !.stored = IF settings # session.settings
                                 THEN persisted(FALSE, settings, @) ELSE @]
  /\ UNCHANGED sessionOnly

\* the page is loaded again: every useState starts from its default
Reload ==
  /\ session # NoRun
  /\ ~session.isInitialLoad
  /\ session' = [session EXCEPT !.isInitialLoad = TRUE, !.settings = DefaultSettings,
                                !.edits = 0]
  /\ UNCHANGED sessionOnly

NextSession ==
  \/ \E field \in DOMAIN SettingValues :
       \E value \in SettingValues[field] : ChangeSetting(field, value)
  \/ RestoreDone
  \/ Reload

SpecSession == InitSession /\ [][NextSession]_vars

\* ------------------------------------------------------------ properties
\* C1: within one runWithConcurrency(pool, tasks) batch the number of tasks
\* started and not yet settled never exceeds max(1, pool), however many tasks
\* the batch has and whichever way its calls complete or fail.
C1_PoolBound ==
  \A b \in DOMAIN batches :
    Cardinality(InFlight(calls, b)) <=
      (IF batches[b].pool >= 1 THEN batches[b].pool ELSE 1)

\* a batch with more tasks than workers whose pool is full and whose last task
\* was started through a slot that a settled call released
C1_PoolFull ==
  \E b \in DOMAIN batches :
    /\ Len(batches[b].tasks) > batches[b].pool
    /\ batches[b].i = Len(batches[b].tasks)
    /\ Cardinality(InFlight(calls, b)) = batches[b].pool

\* C2: a fixAll run with autoLoop off in which every call returns dispatches
\* exactly one call for each document whose verdict was a failure at the click
\* and none for a passed or un-evaluated document, and ends after that single
\* pass (it never pauses for a next pass), whatever the rewrites are worth.
C2_SinglePass ==
  /\ ~fa.autoLoop => fa.pc # "sleep"
  /\ (fa.pc = "await" /\ ~fa.autoLoop) =>
       /\ fa.pass = 1
       /\ \A d \in Docs : fa.disp[d] <= (IF d \in fa.need THEN 1 ELSE 0)
  /\ (fa.pc = "done" /\ ~fa.autoLoop /\ fa.exit # "rejected") =>
       /\ fa.pass = 1
       /\ \A d \in Docs : fa.disp[d] = (IF d \in fa.need THEN 1 ELSE 0)

\* a single-pass run over some but not all drafts has ended with passes left in
\* the budget, and a rewritten draft has been evaluated again and still fails
C2_SinglePassEnded ==
  /\ fa.pc = "done"
  /\ ~fa.autoLoop
  /\ fa.exit = "single"
  /\ fa.maxPasses = 2
  /\ fa.need # {}
  /\ fa.need # Docs
  /\ \E d \in fa.need :
       /\ drafts[d].html.rev >= 1
       /\ drafts[d].gate.src = drafts[d].html.rev
       /\ ~drafts[d].gate.pass

\* C3: when the call for one document of a fixAll batch fails, every other
\* document of the batch is still dispatched, for any concurrency and also when
\* as many calls fail as there are workers: no batch ends with a task it never
\* started.
C3_EveryTaskDispatched == stranded = {}

\* C4: with autoLoop on, a pass after the first collects its failing set from
\* verdicts recomputed on the HTML the previous pass produced: every document
\* the new pass dispatches has, at that moment, a failing verdict that was
\* computed from its current working HTML.
C4_PassUsesRecomputedVerdicts ==
  [][(fa.pc = "sleep" /\ fa'.pc = "await") =>
       \A c \in DOMAIN calls' \ DOMAIN calls :
         /\ IsFailed(drafts[calls'[c].doc])
         /\ drafts[calls'[c].doc].gate.src = drafts[calls'[c].doc].html.rev]_vars

\* C5: whatever the user clicks and however the calls settle, no document has
\* two remediation calls in flight at the same time.
C5_OneCallPerDocument ==
  \A c1, c2 \in DOMAIN calls : calls[c1].doc = calls[c2].doc => c1 = c2

\* C6: in every reachable state a stored verdict was computed from the
\* document's current working HTML: a document counts as passed or failed only
\* on a verdict of the HTML it now holds.
C6_VerdictOfCurrentHtml ==
  \A d \in DOMAIN drafts :
    (IsPassed(drafts[d]) \/ IsFailed(drafts[d])) =>
      drafts[d].gate.src = drafts[d].html.rev

\* C7: fixAll performs at most maxPasses passes and ends with busy reset,
\* either with no failing document left or with the pass budget used up (read
\* for the runs with autoLoop on, which the single-pass rule does not end).
C7_ConvergedOrExhausted ==
  /\ fa.pass <= fa.maxPasses
  /\ fa.pc = "done" => ~busy
  /\ (fa.pc = "done" /\ fa.autoLoop) =>
       \/ Failed(drafts) = {}
       \/ fa.pass = fa.maxPasses

\* the statuses the spec calls transient: rate-limit and server-side
Transient(s) == s = 429 \/ s >= 500

\* C8: callLLM retries an attempt that fails with 429 or with a status >= 500
\* while fewer than 5 attempts have been made; when j <= 4 transient failures
\* are followed by a success the call returns the content of attempt j + 1;
\* no sequence of responses makes one call issue more than 5 HTTP requests.
C8_RetryTransient ==
  /\ nreq <= 5
  /\ Len(script) <= 5
  /\ (script # <<>> /\ Len(script) < 5 /\ Transient(Last(script))) =>
       /\ last.kind = "none"
       /\ \E c \in DOMAIN calls :
            /\ calls[c].attempt + 1 \in {Len(script), Len(script) + 1}
            /\ calls[c].phase \in {"wait", "fetch"}
  /\ last.kind = "ok" =>
       /\ Len(script) = last.attempt + 1
       /\ Last(script) = 200
       /\ \A k \in 1..(Len(script) - 1) : Transient(script[k])
       /\ last.value \in Contents
       /\ calls = <<>>

\* three rate-limit responses, then the fourth attempt succeeded and its
\* content was returned
C8_FourthAttemptSucceeds ==
  /\ script = <<429, 429, 429, 200>>
  /\ last.kind = "ok"
  /\ last.attempt = 3
  /\ nreq = 4

\* C9: an attempt that fails with a non-transient error (a client error other
\* than 429, or an error without status) ends the call at once: no later
\* attempt, no wait, and when it is the first attempt the call has made exactly
\* one HTTP request; a call with an empty key fails without any HTTP request.
C9_NoRetryNonTransient ==
  /\ \A k \in 1..Len(script) :
       (script[k] # 200 /\ ~Transient(script[k])) =>
         /\ k = Len(script)
         /\ last.kind = "err"
         /\ calls = <<>>
         /\ nreq = k
  /\ (script # <<>> /\ script[1] # 200 /\ ~Transient(script[1])) =>
       /\ Len(script) = 1
       /\ last.attempt = 0
  /\ apiKey = "" =>
       /\ nreq = 0
       /\ script = <<>>
       /\ \A c \in DOMAIN calls : calls[c].phase = "entry"
       /\ calls = <<>> => last.kind = "err"
  /\ (apiKey # "" /\ last.kind = "err") => script # <<>>

\* a client error on the first attempt: the call has failed after one request
C9_ClientErrorFailsAtOnce ==
  /\ script = <<400>>
  /\ last.kind = "err"
  /\ nreq = 1
  /\ calls = <<>>

\* C10: when callLLM fails, the error it throws is the error of the last attempt
\* it made: the status it carries is the last status observed, and after five
\* transient failures it is the status of the fifth.
C10_LastStatus ==
  (last.kind = "err" /\ script # <<>>) =>
    /\ last.status = Last(script)
    /\ Len(script) = last.attempt + 1
    /\ (\A k \in 1..Len(script) : Transient(script[k])) =>
         /\ Len(script) = 5
         /\ last.status = script[5]

\* five transient failures with different statuses; the call has failed
C10_FiveTransientFailures ==
  /\ Len(script) = 5
  /\ script[1] = 429
  /\ script[4] = 500
  /\ script[5] = 503
  /\ last.kind = "err"

\* C11: when the remediation call of fixOne fails, the step that rejects it
\* leaves every draft as it was: html (with fixedHtml and history, which fixOne
\* writes together with html, counted by rev) and gate are unchanged, so the
\* document keeps its failing verdict.
C11_FailedFixLeavesDraft ==
  [][(\E c \in DOMAIN calls, s \in Statuses :
        /\ calls[c].doc # 0
        /\ calls[c].phase = "fetch"
        /\ ~ShouldRetry(calls[c].attempt, s)
        /\ HttpFail(c, s)) => drafts' = drafts]_vars

\* an Auto-fix run has ended on a failed call, and a document of its failing
\* set holds the HTML it was uploaded with and still has its failing verdict
C11_FailedFixHappened ==
  /\ fa.pc = "done"
  /\ fa.exit = "rejected"
  /\ calls = <<>>
  /\ \E d \in fa.need :
       /\ IsFailed(drafts[d])
       /\ drafts[d].html.rev = 0
       /\ drafts[d].gate.src = 0

\* hostname h is the domain dom or a subdomain of it
IsDomainOrSubdomain(h, dom) ==
  \/ h = dom
  \/ /\ Len(h) > Len(dom)
     /\ h[Len(h) - Len(dom)] = "."
     /\ \A i \in 1..Len(dom) : h[Len(h) - Len(dom) + i] = dom[i]

\* the anchor's URL is the URL of an anchor of the original document
InOriginalLinkSet(a, originalHtml) ==
  /\ ParseUrl(a.href).ok
  /\ \E j \in 1..Len(originalHtml) :
       /\ ParseUrl(originalHtml[j].href).ok
       /\ ParseUrl(originalHtml[j].href).href = ParseUrl(a.href).href

\* C12: in the output of stripNewUrls an anchor with an href remains, unchanged,
\* only if its URL is in the original document's link set or its host is an
\* allow-listed domain or a subdomain of one; every other anchor, one with an
\* unparseable href included, has become a text node holding the anchor's text.
C12_OnlyKnownOrAllowedLinksRemain ==
  linkRun.phase = "returned" =>
    /\ Len(linkRun.out) = Len(linkRun.newHtml)
    /\ \A k \in 1..Len(linkRun.newHtml) :
         LET a == linkRun.newHtml[k]
             allowed ==
               /\ ParseUrl(a.href).ok
               /\ \E i \in 1..Len(linkRun.allowDomains) :
                    IsDomainOrSubdomain(ParseUrl(a.href).hostname, linkRun.allowDomains[i])
         IN IF InOriginalLinkSet(a, linkRun.originalHtml) \/ allowed
            THEN linkRun.out[k] = a
            ELSE linkRun.out[k] = [tag |-> "#text", text |-> a.text]

\* with trusted.com allow-listed, a link to a subdomain of it was kept, and a
\* link to nottrusted.com and one with a malformed href became their text
C12_KeptAndStripped ==
  /\ linkRun.phase = "returned"
  /\ linkRun.allowDomains # <<>>
  /\ \E k \in 1..Len(linkRun.newHtml) :
       /\ linkRun.newHtml[k].href = "https://cdn.trusted.com/a"
       /\ linkRun.out[k].tag = "a"
  /\ \E k \in 1..Len(linkRun.newHtml) :
       /\ linkRun.newHtml[k].href \in {"https://nottrusted.com/", "http://[bad"}
       /\ linkRun.out[k] = [tag |-> "#text", text |-> "docs"]

\* C13 as stated: an anchor of the revised HTML whose href is byte-identical to
\* the href of an anchor of the original HTML is kept as a link with the same
\* href, whatever its host and whatever the allow-list.
C13_IdenticalHrefKept ==
  linkRun.phase = "returned" =>
    \A k \in 1..Len(linkRun.newHtml) :
      (\E j \in 1..Len(linkRun.originalHtml) :
         linkRun.originalHtml[j].href = linkRun.newHtml[k].href) =>
        linkRun.out[k] = linkRun.newHtml[k]

\* C13 amended: an anchor of the revised HTML whose href parses as a URL and is
\* byte-identical to the href of an anchor of the original HTML is kept as a
\* link with the same href, whatever its host and whatever the allow-list; one
\* whose href does not parse is replaced by its text although the original has it.
C13_IdenticalParsedHrefKept ==
  linkRun.phase = "returned" =>
    \A k \in 1..Len(linkRun.newHtml) :
      (\E j \in 1..Len(linkRun.originalHtml) :
         linkRun.originalHtml[j].href = linkRun.newHtml[k].href) =>
        IF ParseUrl(linkRun.newHtml[k].href).ok
        THEN linkRun.out[k] = linkRun.newHtml[k]
        ELSE linkRun.out[k] = [tag |-> "#text", text |-> linkRun.newHtml[k].text]

\* with an empty allow-list, a link to a host that no allow-list names was kept
\* because the original has the same href
C13_UnlistedOriginalLinkKept ==
  /\ linkRun.phase = "returned"
  /\ linkRun.allowDomains = <<>>
  /\ \E k \in 1..Len(linkRun.newHtml) :
       /\ linkRun.newHtml[k].href = "https://evil.example/x"
       /\ linkRun.originalHtml = <<Anchor("https://evil.example/x", "docs")>>
       /\ linkRun.out[k] = linkRun.newHtml[k]

\* the names of the checks of a verdict, in order
CheckNames(result) == [k \in 1..Len(result.checks) |-> result.checks[k].label.name]

\* C14: a verdict of an evaluation that did not throw has its checks in the
\* order word count, primary density, readability, brand tokens: exactly the
\* first three when no brand token is configured, all four when at least one is.
C14_ChecksInOrder ==
  (gateRun.phase = "delivered" /\ ~gateRun.throws) =>
    CheckNames(gateRun.result) =
      IF gateRun.targets.brandTokens.set /\ Len(gateRun.targets.brandTokens.v) >= 1
      THEN <<"Word count", "Primary density", "Readability", "Brand tokens">>
      ELSE <<"Word count", "Primary density", "Readability">>

\* 1500 words, density 1.2 %, readability 60, default targets and an empty list
\* of brand tokens: three checks, all passing, verdict pass
C14_ThreeChecksAllPass ==
  /\ gateRun.phase = "delivered"
  /\ ~gateRun.throws
  /\ gateRun.article.wordCount = 1500
  /\ gateRun.article.matches = 18
  /\ gateRun.article.fleschScore = 60
  /\ gateRun.targets.brandTokens = Given(<<>>)
  /\ ~gateRun.targets.primaryMin.set
  /\ ~gateRun.targets.primaryMax.set
  /\ ~gateRun.targets.wordCountMin.set
  /\ ~gateRun.targets.fleschMin.set
  /\ Len(gateRun.result.checks) = 3
  /\ gateRun.result.pass

\* C15: in every verdict the gate delivers, pass is true exactly when every
\* check of the verdict passes.
C15_PassIsConjunction ==
  gateRun.phase = "delivered" =>
    (gateRun.result.pass <=>
       \A k \in 1..Len(gateRun.result.checks) : gateRun.result.checks[k].pass)

\* a verdict of four checks of which only the brand check fails: pass is false
C15_OneFailingCheck ==
  /\ gateRun.phase = "delivered"
  /\ ~gateRun.throws
  /\ Len(gateRun.result.checks) = 4
  /\ \A k \in 1..3 : gateRun.result.checks[k].pass
  /\ ~gateRun.result.checks[4].pass
  /\ ~gateRun.result.pass

\* C16: the word count check is the first check and passes iff wordCount is at
\* least the configured minimum (1200 when none is configured); when it fails,
\* its hint is 'Need (minimum - wordCount) more words' and the verdict fails.
C16_WordCountCheck ==
  (gateRun.phase = "delivered" /\ ~gateRun.throws) =>
    LET check == gateRun.result.checks[1]
        min == IF gateRun.targets.wordCountMin.set
               THEN gateRun.targets.wordCountMin.v
               ELSE 1200
    IN /\ check.label.name = "Word count"
       /\ check.pass <=> gateRun.article.wordCount >= min
       /\ ~check.pass =>
            /\ check.hint = [text |-> "Need more words",
                             args |-> <<min - gateRun.article.wordCount>>]
            /\ ~gateRun.result.pass

\* 800 words against the default 1200: the first check fails with
\* 'Need 400 more words' and the verdict fails
C16_Need400MoreWords ==
  /\ gateRun.phase = "delivered"
  /\ ~gateRun.throws
  /\ gateRun.article.wordCount = 800
  /\ ~gateRun.targets.wordCountMin.set
  /\ gateRun.result.checks[1].hint = [text |-> "Need more words", args |-> <<400>>]
  /\ ~gateRun.result.checks[1].pass
  /\ ~gateRun.result.pass

\* C17: the primary density check passes iff the density of the text lies in
\* [primaryMin, primaryMax] in percent, both bounds included, so a density equal
\* to a bound passes; when it fails the hint says 'Too low' iff the density is
\* below the lower bound and 'Too high' iff it is above the upper bound.
\* The density is matches / words, the bounds are the percentages in force, all
\* compared exactly (in hundredths of a percent, cross-multiplied).
C17_DensityBoundsInclusive ==
  (gateRun.phase = "delivered" /\ ~gateRun.throws) =>
    LET check == gateRun.result.checks[2]
        t == gateRun.targets
        lo == IF t.primaryMin.set /\ t.primaryMin.v # 0 THEN t.primaryMin.v ELSE 100
        hi == IF t.primaryMax.set /\ t.primaryMax.v # 0 THEN t.primaryMax.v ELSE 180
        w == IF gateRun.article.wordCount > 0 THEN gateRun.article.wordCount ELSE 1
        m == IF gateRun.article.wordCount > 0 THEN gateRun.article.matches ELSE 0
    IN /\ check.label.name = "Primary density"
       /\ check.pass <=> (lo * w <= m * 10000 /\ m * 10000 <= hi * w)
       /\ check.hint.text = "Too low" <=> m * 10000 < lo * w
       /\ check.hint.text = "Too high" <=> (m * 10000 >= lo * w /\ m * 10000 > hi * w)

\* C18: every threshold the gate applies equals the configured value whenever
\* the field is present, a configured 0 included, and is the default (density
\* 1.0 % - 1.8 %, word count 1200, readability 55) only when the field is
\* absent. The thresholds applied are read off the verdict: the word count and
\* readability labels show theirs, a failing density check states its range.
C18_ConfiguredThresholdsApplied ==
  (gateRun.phase = "delivered" /\ ~gateRun.throws) =>
    LET t == gateRun.targets
        checks == gateRun.result.checks
    IN /\ checks[1].label.args[2] = (IF t.wordCountMin.set THEN t.wordCountMin.v ELSE 1200)
       /\ checks[3].label.args[2] = (IF t.fleschMin.set THEN t.fleschMin.v ELSE 55)
       /\ checks[2].hint.text \in {"Too low", "Too high"} =>
            /\ checks[2].hint.args[1] =
                 (IF t.primaryMin.set
                  THEN Dbl(t.primaryMin.v, TypedRounding(t.primaryMin.v))
                  ELSE Dbl(100, 0))
            /\ checks[2].hint.args[2] =
                 (IF t.primaryMax.set
                  THEN Dbl(t.primaryMax.v, TypedRounding(t.primaryMax.v))
                  ELSE Dbl(180, -1))

\* the token occurs in the text as a substring, letter case ignored
OccursIgnoringCase(article, token) ==
  toLowerCase(token) \in UNION {SubstringsOf(toLowerCase(w)) : w \in article.words}

\* C19: with at least one brand token configured, the brand check passes iff
\* every configured token occurs in the text as a case-insensitive substring,
\* and when it fails its hint lists exactly the missing tokens in configured
\* order; with no brand token configured the verdict has no brand check.
C19_BrandCheck ==
  (gateRun.phase = "delivered" /\ ~gateRun.throws) =>
    LET tokens == gateRun.targets.brandTokens.v
        checks == gateRun.result.checks
        Gone(token) == ~OccursIgnoringCase(gateRun.article, token)
    IN IF gateRun.targets.brandTokens.set /\ Len(tokens) >= 1
       THEN /\ Len(checks) = 4
            /\ checks[4].label.name = "Brand tokens"
            /\ checks[4].pass <=>
                 \A k \in 1..Len(tokens) : OccursIgnoringCase(gateRun.article, tokens[k])
            /\ ~checks[4].pass =>
                 checks[4].hint = [text |-> "Missing", args |-> SelectSeq(tokens, Gone)]
       ELSE \A k \in 1..Len(checks) : checks[k].label.name # "Brand tokens"

\* tokens Zeta, BitCans, Acme against a text holding PacketDrip and BITCANS:
\* BitCans is found whatever its case, the hint lists Zeta and Acme in that order
C19_TwoTokensMissing ==
  /\ gateRun.phase = "delivered"
  /\ ~gateRun.throws
  /\ gateRun.targets.brandTokens = Given(<<"Zeta", "BitCans", "Acme">>)
  /\ gateRun.article.words = {"PacketDrip", "BITCANS"}
  /\ ~gateRun.result.checks[4].pass
  /\ gateRun.result.checks[4].hint = [text |-> "Missing", args |-> <<"Zeta", "Acme">>]

\* C20: when a step of the evaluation throws, the gate still delivers a verdict
\* to onEvaluate: pass is false and there is exactly one check, which fails and
\* is labelled 'Evaluation error'.
C20_EvaluationErrorVerdict ==
  /\ (gateRun.phase # "none" /\ gateRun.throws) =>
       ENABLED GateTimer \/ gateRun.phase = "delivered"
  /\ (gateRun.phase = "delivered" /\ gateRun.throws) =>
       /\ ~gateRun.result.pass
       /\ Len(gateRun.result.checks) = 1
       /\ ~gateRun.result.checks[1].pass
       /\ gateRun.result.checks[1].label.name = "Evaluation error"

\* an evaluation that threw has delivered its verdict
C20_ThrowingEvaluationDelivered ==
  /\ gateRun.phase = "delivered"
  /\ gateRun.throws
  /\ Len(gateRun.result.checks) = 1

\* the readability formula with 1 in place of a zero sentence or word count
FleschWithFloors(text) ==
  Number(fleschRounded(Max(1, Cardinality(Runs(text, WordChars))),
                       Max(1, sentencePieces(text)),
                       syllablesOf(text, WordChars)))

\* C23: for every text, the empty one and those without a word character
\* included, calculateFleschScore and fleschReadingEase put 1 in place of a zero
\* sentence count or word count and return a defined integer, and the word
\* count is at least 0.
C23_ReadabilityDefined ==
  textRun.phase = "measured" =>
    /\ textRun.wordCount >= 0
    /\ textRun.stats.wordCount >= 0
    /\ ~textRun.stats.flesch.nan
    /\ textRun.stats.flesch = FleschWithFloors(lowerCased(textRun.text))
    /\ ~textRun.fleschScore.nan
    /\ textRun.fleschScore = FleschWithFloors(textRun.text)

\* the tokens of a text, letter case ignored
TokensOf(text) == Runs(lowerCased(text), NonWhitespace)

\* occurrences of the lower-cased phrase in the lower-cased text, character for
\* character, none overlapping another
LiteralOccurrences(text, phrase) == CountFrom(lowerCased(text), lowerCased(phrase), 1, {})

\* the specified density, as the fraction of which it is 100 times
ReferenceDensity(text, phrase) ==
  LET tokens == TokensOf(text)
      phraseWords == TokensOf(phrase)
  IN IF phraseWords = {} \/ tokens = {} THEN [n |-> 0, d |-> 1]
     ELSE IF Cardinality(phraseWords) = 1
          THEN [n |-> Cardinality({r \in tokens :
                        \E q \in phraseWords :
                          SubSeq(lowerCased(text), r[1], r[2])
                            = SubSeq(lowerCased(phrase), q[1], q[2])}),
                d |-> Cardinality(tokens)]
          ELSE [n |-> LiteralOccurrences(text, phrase) * Cardinality(phraseWords),
                d |-> Cardinality(tokens)]

\* C24: calculateKeywordDensity equals the specified density for every text and
\* keyword: 0 for an empty phrase, exact token matches over tokens for one word,
\* literal occurrences times phrase length over tokens for several words; so a
\* keyword absent from the text has density 0.
C24_DensityMatchesReference ==
  textRun.phase = "measured" =>
    LET ref == ReferenceDensity(textRun.text, textRun.keyword)
    IN textRun.primaryDensity.n * ref.d = ref.n * textRun.primaryDensity.d

\* C25: the word count of the gate is the number of non-empty tokens of the
\* text split on non-alphanumeric boundaries.
C25_WordCountOnNonAlphanumeric ==
  textRun.phase = "measured" =>
    textRun.wordCount = Cardinality(Runs(textRun.text, {"a", "b", "B"}))

\* the last two verdicts delivered were computed from the same html, keyword
\* and targets
SameInputsTwice ==
  /\ mount # NoRun
  /\ mount.gate.def
  /\ mount.prev.def
  /\ mount.of = mount.prevOf

C26_LastVerdictOfFinalInputs ==
  mount # NoRun =>
    /\ mount.evals >= 1 => mount.of = [def |-> TRUE] @@ Props(mount)
    /\ (mount.gate.def /\ ~mount.timer.on) => mount.of = [def |-> TRUE] @@ Props(mount)

\* C27: with html, keyword and targets unchanged the gate evaluates a document
\* once: after the verdict is delivered no further evaluation is pending and
\* none is delivered.
C27_EvaluatedOnce ==
  mount # NoRun =>
    /\ mount.evals <= 1
    /\ mount.evals = 1 => ~mount.timer.on

\* the calls a step dispatches: fixOne builds the prompt from the draft d it is
\* given and keeps d.html as originalHtml (layout.tsx 477-478), so orig is the
\* ARTICLE HTML of the instruction
Dispatched ==
  {c \in DOMAIN calls' :
     /\ calls'[c].doc # 0
     /\ c \notin DOMAIN calls \/ calls[c].doc # calls'[c].doc}

\* C28: the instruction of every remediation dispatched embeds the document's
\* working HTML as it is at dispatch, in a later pass the HTML the previous fix
\* stored, and lists the failing checks of the document's latest verdict.
C28_PromptOfCurrentDocument ==
  [][\A c \in Dispatched : calls'[c].orig = drafts'[calls'[c].doc].html]_vars

\* every draft of the list is still there, in its place, with its identifier
\* and its raw text
DraftsKept ==
  /\ Len(docs') >= Len(docs)
  /\ \A i \in 1..Len(docs) :
       /\ docs'[i].id = docs[i].id
       /\ docs'[i].raw = docs[i].raw

\* C29: no operation on an existing document (evaluation, successful or failed
\* fix, Normalize, Refresh, metadata edit, constraint toggle, a further upload)
\* changes its raw text or its identifier or removes it; only Reset session
\* removes documents.
C29_RawAndIdKept == [][ResetSession \/ DraftsKept]_vars

\* a draft that was evaluated, rewritten by a fix, had its keyword edited and
\* its switch turned off, and has the raw text and the id of its upload
C29_DraftWorkedOn ==
  /\ Len(docs) = 2
  /\ docs[1].fixes = 1
  /\ docs[1].html \in Rewrites
  /\ docs[1].gate.def
  /\ docs[1].primary = "text"
  /\ ~docs[1].useFixConstraints
  /\ docs[1].raw = "<p>seo text</p>"
  /\ docs[1].id = 1
  /\ docs[2].gate = EmptyObject
  /\ docs[2].raw = "an"

\* C30: every document is in exactly one of un-evaluated (no verdict), passed
\* (verdict with pass = true) and failed (verdict with pass = false), and a
\* document is in the failed set only if an evaluation of it produced a verdict
\* with pass = false.
C30_FailedOnlyByVerdict ==
  \A i \in DOMAIN docs :
    LET d == docs[i]
    IN /\ Cardinality({k \in {"un-evaluated", "passed", "failed"} :
                         \/ k = "un-evaluated" /\ ~d.gate.def
                         \/ k = "passed" /\ IsPassed(d)
                         \/ k = "failed" /\ IsFailed(d)}) = 1
       /\ IsFailed(d) =>
            /\ "pass" \in d.gate.own
            /\ d.gate = VerdictObject(FALSE)

\* C35: when the call of fixOne(d) settles with a rewrite, the draft whose id
\* is d's gets the filtered rewrite as its html and exactly one more 'fix'
\* history entry; every other draft, and that draft's raw text, keyword, switch,
\* verdict and id, stay as they were, and no draft is created, so nothing
\* changes when d was removed in the meantime; and no step other than the
\* settling of a call adds a 'fix' entry to a draft that stays in the list.
C35_OnlyTheFixedDraftChanges ==
  [][/\ \A c \in DOMAIN pending, o \in Rewrites :
          FixSettles(c, o) =>
            /\ Len(docs') = Len(docs)
            /\ \A i \in DOMAIN docs :
                 IF docs[i].id = pending[c].id
                 THEN docs'[i] = [docs[i] EXCEPT !.html = o, !.fixes = docs[i].fixes + 1]
                 ELSE docs'[i] = docs[i]
     /\ (\A c \in DOMAIN pending, o \in Rewrites : ~FixSettles(c, o)) =>
          \A i \in DOMAIN docs \cap DOMAIN docs' :
            docs'[i].id = docs[i].id => docs'[i].fixes = docs[i].fixes]_vars

\* the call of a fix of the first upload has settled after Reset session and
\* two more uploads: no call is pending, the two drafts of the list are the
\* second and third upload, and the one rewritten since has one 'fix' entry
C35_SettledAfterReset ==
  /\ pending = <<>>
  /\ uids = 3
  /\ Len(docs) = 2
  /\ docs[1].id = 2 /\ docs[1].fixes = 1 /\ docs[1].html \in Rewrites
  /\ docs[2].id = 3 /\ docs[2].fixes = 0 /\ docs[2].html = normalizeToHtml(docs[2].raw)

\* C34: for every fix a pass of fixAll stores, the stored HTML is the link
\* filter applied to the rewriter's output against the working HTML the
\* document had immediately before this fix (in a second or later pass, the
\* HTML the previous pass stored).
C34_FilteredAgainstCurrentHtml ==
  [][\A c \in DOMAIN calls, q \in Contents :
       (HttpOk(c, q) /\ calls[c].doc # 0 /\ calls[c].batch # 0) =>
         drafts'[calls[c].doc].html.base = drafts[calls[c].doc].html.rev]_vars

\* C37: fixAll leaves the await of a pass (for the pause before the next pass,
\* or for good with busy back to false) only when no call the pass has
\* dispatched is in flight and no task of the pass waits to be started,
\* whether the calls succeed or fail.
C37_PassEndsWhenBatchIsDrained ==
  [][(fa.pc = "await" /\ fa'.pc # "await") =>
       /\ InFlight(calls', fa.batch) = {}
       /\ fa.batch \in DOMAIN batches' =>
            batches'[fa.batch].i = Len(batches'[fa.batch].tasks)]_vars

\* C39: the gate's isEvaluating never stays true forever: whenever it is true
\* a timer is pending whose callback resets it, also after html or primary
\* became empty while an evaluation was pending.
C39_EvaluatingOnlyWithTimer ==
  mount # NoRun => (mount.isEvaluating => mount.timer.on)

\* the draft with this id is in the list / has a verdict of the gate
Listed(id) == \E i \in DOMAIN docs : docs[i].id = id
Evaluated(id) ==
  \E i \in DOMAIN docs :
    docs[i].id = id /\ docs[i].gate \in {VerdictObject(TRUE), VerdictObject(FALSE)}

\* C33: every uploaded draft is eventually evaluated and so placed in Passed or
\* Didn't Pass (unless the session is reset first), whatever primary keyword
\* the upload analysis derived for it.
C33_EveryDraftEvaluated ==
  \A id \in 1..MaxUploads : [](Listed(id) => <>(Evaluated(id) \/ ~Listed(id)))

\* the waits the spec names for the failed attempts 0..3, without jitter
SpecifiedWait == <<800, 1600, 3200, 6400>>

\* C38: the wait before the retry after failed attempt k (k = 0..3) is at least
\* min(8000, 800 * 2^k) and less than that plus 200; without the jitter the
\* waits of a call never decrease from one retry to the next; and no wait that
\* callLLM performs exceeds 8000 ms.
C38_WaitsWithinBounds ==
  backoffRun # NoRun =>
    \A n \in 1..Len(backoffRun.waits) :
      LET w == backoffRun.waits[n]
      IN /\ w.attempt = n - 1
         /\ n <= Len(SpecifiedWait)
         /\ SpecifiedWait[n] = Min(8000, 800 * 2^(n - 1))
         /\ w.delay >= SpecifiedWait[n]
         /\ w.delay < SpecifiedWait[n] + 200
         /\ w.delay <= 8000
         /\ n > 1 => w.delay - w.jitter >= backoffRun.waits[n - 1].delay - backoffRun.waits[n - 1].jitter

\* a call whose five attempts all failed with a transient status: it waited
\* four times, the last time with the largest jitter, and threw
C38_FourWaits ==
  /\ backoffRun # NoRun
  /\ backoffRun.phase = "threw"
  /\ Len(backoffRun.waits) = 4
  /\ backoffRun.waits[4].delay = 6599
  /\ backoffRun.waits[1].delay = 800

\* C36: runWithConcurrency starts the tasks in the order of the array, each at
\* most once; and when every task succeeds, every task was started exactly once
\* and results[k] holds the result of task k for every k, whatever the order in
\* which the tasks completed.
C36_SubmissionOrderAndResults ==
  poolRun # NoRun =>
    /\ Len(poolRun.started) <= poolRun.n
    /\ \A m \in 1..Len(poolRun.started) : poolRun.started[m] = m - 1
    /\ poolRun.phase = "resolved" =>
         /\ Len(poolRun.started) = poolRun.n
         /\ DOMAIN poolRun.results = 0..(poolRun.n - 1)
         /\ \A k \in 0..(poolRun.n - 1) : poolRun.results[k] = ValueOf(k)

\* three tasks on two workers, all succeeded, completed in the order 1, 2, 0
C36_CompletedOutOfOrder ==
  /\ poolRun # NoRun
  /\ poolRun.phase = "resolved"
  /\ poolRun.n = 3
  /\ poolRun.pool = 2
  /\ poolRun.done = <<1, 2, 0>>
  /\ poolRun.results = [k \in 0..2 |-> ValueOf(k)]

\* C32: the audit export holds exactly one record per draft, with passed = the
\* pass of its verdict (false without a verdict) and audit = the snapshot of
\* its verdict (null without one); the passed-HTML export holds exactly one
\* payload per passed draft, named by the draft's name without its extension
\* plus "_PASSED.html" and holding its working HTML.
C32_OnePayloadPerDocument ==
  exportRun # NoRun =>
    LET ds == exportRun.drafts
        hasVerdict(d) == d.gate.def /\ "pass" \in d.gate.own
        passedIds == {k \in DOMAIN ds : hasVerdict(ds[k]) /\ ds[k].gate.pass}
    IN /\ exportRun.savedAudits =>
            /\ Len(exportRun.audits) = Len(ds)
            /\ \A k \in DOMAIN ds :
                 /\ exportRun.audits[k].id = ds[k].id
                 /\ exportRun.audits[k].passed = (hasVerdict(ds[k]) /\ ds[k].gate.pass)
                 /\ exportRun.audits[k].audit =
                      IF hasVerdict(ds[k]) THEN ds[k].gate.auditJson ELSE "null"
       /\ exportRun.savedZip =>
            /\ Cardinality(DOMAIN exportRun.zip) = Cardinality(passedIds)
            /\ \A k \in passedIds :
                 /\ passedPath(ds[k].name) \in DOMAIN exportRun.zip
                 /\ exportRun.zip[passedPath(ds[k].name)] = ds[k].html

\* C31: restoring a saved session yields the drafts, targets, provider, API
\* key, autoLoop, maxPasses, concurrency, brand tokens and allow-list that were
\* saved; and nothing is saved before the initial restore has finished.
C31_RestoreYieldsWhatWasSaved ==
  [][/\ (RestoreDone /\ session.stored.saved) => session'.settings = session.stored.v
     /\ (session.isInitialLoad /\ session'.isInitialLoad) =>
          session'.stored = session.stored]_vars

====
